---- MODULE Spec2Model ----
(***************************************************************************)
(* Model of the OneNote index builder (onenote-exporter/index_builder.py)  *)
(* and of the part of the content exporter (onenote_exporter.py) that      *)
(* decides where page files are written.                                   *)
(*                                                                         *)
(* Strings on which the code works character by character (names, titles,  *)
(* path components, relative paths) are sequences of one-character         *)
(* strings.  Identifiers that the code only compares (page ids, orphan     *)
(* reasons) are plain strings.  A pathlib.Path is the sequence of its      *)
(* components, the first one being the export root.                        *)
(***************************************************************************)
EXTENDS Integers, Sequences, FiniteSets, TLC

VARIABLES
    tb,                 \* a PageTreeBuilder object (raw_pages, nodes, root_nodes, orphan_nodes)
    tpc,                \* position of PageTreeBuilder.build() on tb
    preflight_data,     \* the inventory handed to IndexBuilder
    built,              \* number of completed IndexBuilder.build() calls
    notebooks,          \* IndexBuilder.notebooks
    stats,              \* IndexBuilder.stats
    errors,             \* IndexBuilder.errors
    errors_aliased,     \* IndexBuilder.errors is the list object preflight_data['errors']
    planner,            \* FilesystemLayoutPlanner: id_to_path and operations
    index_md,           \* index_md_content of the last IndexBuildResult
    index_json,         \* index_json_data of the last IndexBuildResult
    dirs,               \* directories existing below (and including) the export root
    files,              \* regular files existing below the export root
    exported,           \* pages the content exporter has handled, with the html path used
    missing_links,      \* result of the last validate_index_links call
    pc,                 \* position of the caller of the index builder
    arg_text,           \* the string handed to a utility function
    arg_max_length,     \* the max_length handed with it
    called,             \* the utility function that has been applied to arg_text
    returned,           \* the string it returned
    nesting,            \* number of pages of a section that are nested one in the other
    frames,             \* frames on the interpreter's call stack
    dfs_depth,          \* calls of dfs that have not returned yet
    spc                 \* position of the cycle-detection pass over that section

vars == <<tb, tpc, preflight_data, built, notebooks, stats, errors,
          errors_aliased, planner, index_md, index_json, dirs, files,
          exported, missing_links, pc, arg_text, arg_max_length, called, returned,
          nesting, frames, dfs_depth, spc>>

builderVars == <<preflight_data, built, notebooks, stats, errors,
                 errors_aliased, planner, index_md, index_json, dirs, files,
                 exported, missing_links, pc>>

treeVars == <<tb, tpc>>

textVars == <<arg_text, arg_max_length, called, returned>>

stackVars == <<nesting, frames, dfs_depth, spc>>

(***************************************************************************)
(* Bounds of the model                                                     *)
(***************************************************************************)
MaxPages == 3
MaxLevel == 2
MaxOrder == 2
MaxBuilds == 2
MaxGroupDepth == 2

(***************************************************************************)
(* Optional values (Python None)                                           *)
(***************************************************************************)
None == "None"
NoneStr == <<"None">>
NonePath == << <<"None">> >>

(***************************************************************************)
(* Generic sequence helpers                                                *)
(***************************************************************************)
Range(s) == {s[i] : i \in 1..Len(s)}

Last(s) == s[Len(s)]

Front(s) == SubSeq(s, 1, Len(s) - 1)

RECURSIVE Flatten(_)
Flatten(ss) == IF ss = <<>> THEN <<>> ELSE Head(ss) \o Flatten(Tail(ss))

\* F(v) with v evaluated once, however often F refers to its argument: the
\* value of a statement's result that the following statements read
Once(v, F(_)) == CHOOSE r \in {F(x) : x \in {v}} : TRUE

(***************************************************************************)
(* Utility functions of index_builder.py                                   *)
(***************************************************************************)
DefaultMaxLength == 200

ForbiddenChars == {"<", ">", ":", "\"", "/", "\\", "|", "?", "*"}

StripChars == {".", " "}

Untitled == <<"u", "n", "t", "i", "t", "l", "e", "d">>

HtmlExt == <<".", "h", "t", "m", "l">>

\* re.sub(r'[<>:"/\\|?*]', '_', text)
ReplaceForbidden(text) ==
    [i \in 1..Len(text) |-> IF text[i] \in ForbiddenChars THEN "_" ELSE text[i]]

\* str.lstrip(chars)
RECURSIVE LStrip(_, _)
LStrip(text, chars) ==
    IF text # <<>> /\ Head(text) \in chars THEN LStrip(Tail(text), chars) ELSE text

\* str.rstrip(chars)
RECURSIVE RStrip(_, _)
RStrip(text, chars) ==
    IF text # <<>> /\ Last(text) \in chars THEN RStrip(Front(text), chars) ELSE text

\* str.strip(chars)
Strip(text, chars) == RStrip(LStrip(text, chars), chars)

sanitize_path_name(text, max_length) ==
    IF text = <<>> THEN Untitled
    ELSE LET replaced == ReplaceForbidden(text)
             stripped == Strip(replaced, StripChars)
             cut == IF Len(stripped) > max_length
                    THEN RStrip(SubSeq(stripped, 1, max_length), StripChars)
                    ELSE stripped
         IN IF cut # <<>> THEN cut ELSE Untitled

slugify(text) == sanitize_path_name(text, DefaultMaxLength)

\* OneNoteExporter.sanitize_filename
sanitize_filename(filename) ==
    LET stripped == Strip(ReplaceForbidden(filename), StripChars)
    IN IF stripped # <<>>
       THEN SubSeq(stripped, 1, IF Len(stripped) < 200 THEN Len(stripped) ELSE 200)
       ELSE Untitled

Digits == <<"0", "1", "2", "3", "4", "5", "6", "7", "8", "9">>

\* str(n) for n >= 0
RECURSIVE IntToStr(_)
IntToStr(n) == IF n < 10 THEN <<Digits[n + 1]>>
               ELSE IntToStr(n \div 10) \o <<Digits[(n % 10) + 1]>>

RECURSIVE ZeroPad(_, _)
ZeroPad(s, width) == IF Len(s) >= width THEN s ELSE ZeroPad(<<"0">> \o s, width)

format_order_prefix(index, total) ==
    IF total < 10 THEN ZeroPad(IntToStr(index), 1)
    ELSE IF total < 100 THEN ZeroPad(IntToStr(index), 2)
    ELSE IF total < 1000 THEN ZeroPad(IntToStr(index), 3)
    ELSE ZeroPad(IntToStr(index), 4)

\* str.split('/') of a non-empty string
RECURSIVE SplitSlash(_, _)
SplitSlash(text, cur) ==
    IF text = <<>> THEN <<cur>>
    ELSE IF Head(text) = "/" THEN <<cur>> \o SplitSlash(Tail(text), <<>>)
    ELSE SplitSlash(Tail(text), Append(cur, Head(text)))

\* '/'.join(components)
RECURSIVE JoinSlash(_)
JoinSlash(comps) ==
    IF comps = <<>> THEN <<>>
    ELSE IF Len(comps) = 1 THEN comps[1]
    ELSE comps[1] \o <<"/">> \o JoinSlash(Tail(comps))

\* the export root handed to the builder and to the exporter
export_root == << <<"r", "o", "o", "t">> >>

IsRelativeTo(path, base) ==
    Len(path) >= Len(base) /\ SubSeq(path, 1, Len(base)) = base

\* path_to_markdown_link(path, base_path) with encode=False
path_to_markdown_link(path, base_path) ==
    IF IsRelativeTo(path, base_path)
    THEN JoinSlash(SubSeq(path, Len(base_path) + 1, Len(path)))
    ELSE JoinSlash(path)

\* the characters str.strip() without argument removes that occur in the model
Whitespace == {" ", "\t", "\n"}

UntitledLabel == <<"U", "n", "t", "i", "t", "l", "e", "d">>

\* variant that uses a title that is not empty as it is
safe_link_label_untrimmed(title) == IF title = <<>> THEN UntitledLabel ELSE title

safe_link_label(title) ==
    IF title = <<>> \/ Strip(title, Whitespace) = <<>> THEN UntitledLabel
    ELSE Strip(title, Whitespace)

\* variant that leaves a percent sign as it is
EncodeCharKeepPercent(c) ==
    IF c = "\\" THEN <<"/">>
    ELSE IF c = " " THEN <<"%", "2", "0">>
    ELSE IF c = "#" THEN <<"%", "2", "3">>
    ELSE IF c = "?" THEN <<"%", "3", "F">>
    ELSE <<c>>

\* the chain of str.replace calls of md_link_target, one character at a time
EncodeChar(c) ==
    IF c = "\\" THEN <<"/">>
    ELSE IF c = "%" THEN <<"%", "2", "5">>
    ELSE IF c = " " THEN <<"%", "2", "0">>
    ELSE IF c = "#" THEN <<"%", "2", "3">>
    ELSE IF c = "?" THEN <<"%", "3", "F">>
    ELSE <<c>>

md_link_target(path) == Flatten([i \in 1..Len(path) |-> EncodeChar(path[i])])

\* path_to_markdown_link(path, base_path, encode=True)
path_to_markdown_link_encoded(path, base_path) ==
    md_link_target(path_to_markdown_link(path, base_path))

(***************************************************************************)
(* PageTreeBuilder                                                         *)
(***************************************************************************)
NoParentReason == "No parent found at expected level"

CycleReason == "Involved in circular reference"

PageNode(page) ==
    [id |-> page.id, title |-> page.title, parent_page_id |-> page.parentPageId,
     level |-> page.level, order |-> page.order,
     children |-> <<>>, is_orphan |-> FALSE, orphan_reason |-> None,
     resolved_path |-> NonePath, relative_path_from_root |-> NoneStr,
     depth |-> 0, order_prefix |-> <<>>]

\* PageTreeBuilder.__init__
NewTreeBuilder(pages) ==
    [raw_pages |-> pages, nodes |-> <<>>, node_ids |-> <<>>,
     root_nodes |-> <<>>, orphan_nodes |-> <<>>]

\* keys of the dict self.nodes in insertion order
RECURSIVE KeyOrder(_, _)
KeyOrder(pages, seen) ==
    IF pages = <<>> THEN <<>>
    ELSE IF Head(pages).id \in Range(seen) THEN KeyOrder(Tail(pages), seen)
    ELSE <<Head(pages).id>> \o KeyOrder(Tail(pages), Append(seen, Head(pages).id))

create_nodes(t) ==
    LET raw == t.raw_pages
        ids == {raw[i].id : i \in 1..Len(raw)}
        lastIdx(id) == CHOOSE i \in 1..Len(raw) :
                           /\ raw[i].id = id
                           /\ \A j \in (i + 1)..Len(raw) : raw[j].id # id
    IN [t EXCEPT !.nodes = [id \in ids |-> PageNode(raw[lastIdx(id)])],
                 !.node_ids = KeyOrder(raw, <<>>)]

\* insert id into the sorted list s after every entry whose order is <= its own
RECURSIVE InsertByOrder(_, _, _)
InsertByOrder(s, id, nodes) ==
    IF s = <<>> THEN <<id>>
    ELSE IF nodes[Head(s)].order <= nodes[id].order
         THEN <<Head(s)>> \o InsertByOrder(Tail(s), id, nodes)
         ELSE <<id>> \o s

\* variant that leaves the list in the order it has
SortByOrderKeep(ids, nodes) == ids

\* sorted(ids, key=lambda n: n.order): stable
RECURSIVE SortByOrder(_, _)
SortByOrder(ids, nodes) ==
    IF ids = <<>> THEN <<>>
    ELSE InsertByOrder(SortByOrder(Front(ids), nodes), Last(ids), nodes)

\* variant of the pop loop that keeps entries of the same level on the stack
RECURSIVE PopStackKeepEqual(_, _)
PopStackKeepEqual(stack, level) ==
    IF stack # <<>> /\ Last(stack)[2] > level
    THEN PopStackKeepEqual(Front(stack), level)
    ELSE stack

\* while parent_stack and parent_stack[-1][1] >= level: parent_stack.pop()
RECURSIVE PopStack(_, _)
PopStack(stack, level) ==
    IF stack # <<>> /\ Last(stack)[2] >= level THEN PopStack(Front(stack), level)
    ELSE stack

\* variant of the loop body that pushes the node before it looks for the parent
RelateNodePushFirst(st, id) ==
    LET level == st.nodes[id].level
        stack == Append(PopStack(st.stack, level), <<id, level>>)
        nodes1 ==
            IF level > 0
            THEN LET parent == Last(stack)[1]
                 IN [st.nodes EXCEPT ![id].parent_page_id = parent,
                                     ![parent].children = Append(@, id)]
            ELSE st.nodes
    IN [nodes |-> nodes1, stack |-> stack]

\* one iteration of the loop of _build_relationships_from_levels
RelateNode(st, id) ==
    LET level == st.nodes[id].level
        stack == PopStack(st.stack, level)
        nodes1 ==
            IF level > 0 /\ stack # <<>>
            THEN LET parent == Last(stack)[1]
                 IN [st.nodes EXCEPT ![id].parent_page_id = parent,
                                     ![parent].children = Append(@, id)]
            ELSE IF level > 0
            THEN [st.nodes EXCEPT ![id].is_orphan = TRUE,
                                  ![id].orphan_reason = NoParentReason]
            ELSE st.nodes
    IN [nodes |-> nodes1, stack |-> Append(stack, <<id, level>>)]

RECURSIVE RelateLoop(_, _)
RelateLoop(st, ids) ==
    IF ids = <<>> THEN st
    ELSE Once(RelateNode(st, Head(ids)), LAMBDA st1 : RelateLoop(st1, Tail(ids)))

\* variant that takes the pages in the order of the dict instead of sorting them
build_relationships_unsorted(t) ==
    [t EXCEPT !.nodes = RelateLoop([nodes |-> t.nodes, stack |-> <<>>],
                                   t.node_ids).nodes]

build_relationships_from_levels(t) ==
    LET sorted_nodes == SortByOrder(t.node_ids, t.nodes)
    IN [t EXCEPT !.nodes = RelateLoop([nodes |-> t.nodes, stack |-> <<>>],
                                      sorted_nodes).nodes]

\* dfs(node_id) of _detect_cycles_and_orphans; st = [nodes, visited, in_stack]
RECURSIVE dfs(_, _)
RECURSIVE dfsChildren(_, _, _)
dfs(st, node_id) ==
    IF node_id \in st.in_stack THEN [st |-> st, cycle |-> TRUE]
    ELSE IF node_id \in st.visited THEN [st |-> st, cycle |-> FALSE]
    ELSE dfsChildren([st EXCEPT !.visited = @ \cup {node_id},
                                !.in_stack = @ \cup {node_id}], node_id, 1)

dfsChildren(st, node_id, i) ==
    IF node_id \notin DOMAIN st.nodes \/ i > Len(st.nodes[node_id].children)
    THEN [st |-> [st EXCEPT !.in_stack = @ \ {node_id}], cycle |-> FALSE]
    ELSE LET child == st.nodes[node_id].children[i]
         IN Once(dfs(st, child), LAMBDA r :
                IF r.cycle
                THEN [st |-> [r.st EXCEPT !.nodes[child].is_orphan = TRUE,
                                          !.nodes[child].orphan_reason = CycleReason],
                      cycle |-> TRUE]
                ELSE dfsChildren(r.st, node_id, i + 1))

RECURSIVE DfsLoop(_, _)
DfsLoop(st, ids) ==
    IF ids = <<>> THEN st
    ELSE IF Head(ids) \notin st.visited
         THEN Once(dfs(st, Head(ids)).st, LAMBDA st1 : DfsLoop(st1, Tail(ids)))
         ELSE DfsLoop(st, Tail(ids))

\* variant that takes a page met again below its parent for a cycle: the set
\* in_stack is never emptied, so the first child of a page visited before its
\* parent is marked
detect_cycles_keeping_stack(t) ==
    [t EXCEPT !.nodes =
        [id \in DOMAIN t.nodes |->
            IF \E q \in DOMAIN t.nodes :
                   /\ t.nodes[q].children # <<>>
                   /\ t.nodes[q].children[1] = id
                   /\ \E i, j \in 1..Len(t.node_ids) :
                          i < j /\ t.node_ids[i] = id /\ t.node_ids[j] = q
            THEN [t.nodes[id] EXCEPT !.is_orphan = TRUE, !.orphan_reason = CycleReason]
            ELSE t.nodes[id]]]

detect_cycles_and_orphans(t) ==
    [t EXCEPT !.nodes = DfsLoop([nodes |-> t.nodes, visited |-> {}, in_stack |-> {}],
                                t.node_ids).nodes]

\* Python truthiness of Optional[str]
Truthy(s) == s # None /\ s # ""

RECURSIVE CategorizeLoop(_, _, _)
CategorizeLoop(t, ids, acc) ==
    IF ids = <<>> THEN acc
    ELSE LET node == t.nodes[Head(ids)]
             acc1 == IF node.is_orphan
                     THEN [acc EXCEPT !.orphan_nodes = Append(@, node.id)]
                     ELSE IF node.level = 0 \/ ~Truthy(node.parent_page_id)
                     THEN [acc EXCEPT !.root_nodes = Append(@, node.id)]
                     ELSE acc
         IN Once(acc1, LAMBDA a : CategorizeLoop(t, Tail(ids), a))

categorize_nodes(t) ==
    LET acc == CategorizeLoop(t, t.node_ids,
                   [root_nodes |-> t.root_nodes, orphan_nodes |-> t.orphan_nodes])
    IN [t EXCEPT !.root_nodes = SortByOrder(acc.root_nodes, t.nodes),
                 !.orphan_nodes = SortByOrder(acc.orphan_nodes, t.nodes)]

\* PageTreeBuilder.build() as one computation
TreeBuild(t) ==
    IF t.raw_pages = <<>> THEN t
    ELSE Once(create_nodes(t), LAMBDA t1 :
         Once(build_relationships_from_levels(t1), LAMBDA t2 :
         Once(detect_cycles_and_orphans(t2), LAMBDA t3 : categorize_nodes(t3))))

(***************************************************************************)
(* Python dict with string keys: a sequence of entries in insertion order  *)
(***************************************************************************)
DictHas(d, k) == \E i \in 1..Len(d) : d[i].key = k

DictGet(d, k) == d[CHOOSE i \in 1..Len(d) : d[i].key = k].value

DictPut(d, k, v) ==
    IF DictHas(d, k)
    THEN [i \in 1..Len(d) |-> IF d[i].key = k THEN [key |-> k, value |-> v] ELSE d[i]]
    ELSE Append(d, [key |-> k, value |-> v])

(***************************************************************************)
(* FilesystemLayoutPlanner.  The planner state pl is [id_to_path,          *)
(* operations]; the page nodes of the section being planned are passed     *)
(* and returned with it as ps = [nodes, pl].                               *)
(***************************************************************************)
Mkdir(path) == <<"mkdir", path>>

NotebookNode(nb_data) ==
    [id |-> nb_data.id, name |-> nb_data.name, sections |-> <<>>,
     section_groups |-> nb_data.section_groups, resolved_path |-> NonePath]

SectionNode(sec_data, notebook, section_group_path) ==
    [id |-> sec_data.id, name |-> sec_data.name,
     notebook_id |-> notebook.id, notebook_name |-> notebook.name,
     section_group_path |-> section_group_path,
     pages |-> <<>>, nodes |-> <<>>, root_pages |-> <<>>, orphan_pages |-> <<>>,
     resolved_path |-> NonePath]

plan_notebook(pl, notebook) ==
    LET nb_path == Append(export_root, slugify(notebook.name))
    IN [pl |-> [pl EXCEPT !.operations = Append(@, Mkdir(nb_path))],
        notebook |-> [notebook EXCEPT !.resolved_path = nb_path]]

\* the loop over section_group_path.split('/')
RECURSIVE PlanGroups(_, _, _)
PlanGroups(pl, parent_path, group_names) ==
    IF group_names = <<>> THEN [pl |-> pl, parent_path |-> parent_path]
    ELSE Once(Append(parent_path, slugify(Head(group_names))), LAMBDA path :
         Once([pl EXCEPT !.operations = Append(@, Mkdir(path))], LAMBDA pl1 :
             PlanGroups(pl1, path, Tail(group_names))))

plan_section(pl, section, parent_path) ==
    Once(IF section.section_group_path # <<>>
         THEN PlanGroups(pl, parent_path, SplitSlash(section.section_group_path, <<>>))
         ELSE [pl |-> pl, parent_path |-> parent_path], LAMBDA g :
    Once(Append(g.parent_path, slugify(section.name)), LAMBDA sec_path :
        [pl |-> [g.pl EXCEPT !.operations = Append(@, Mkdir(sec_path))],
         section |-> [section EXCEPT !.resolved_path = sec_path]]))

\* the path mapping stored at the end of _plan_page_recursive and in plan_pages
StorePath(ps, page_id) ==
    LET rel_path == path_to_markdown_link(ps.nodes[page_id].resolved_path, export_root)
    IN [nodes |-> [ps.nodes EXCEPT ![page_id].relative_path_from_root = rel_path],
        pl |-> [ps.pl EXCEPT !.id_to_path = DictPut(@, page_id, rel_path)]]

RECURSIVE plan_page_recursive(_, _, _, _, _)
RECURSIVE PlanChildren(_, _, _, _, _)
plan_page_recursive(ps, page_id, parent_path, prefix, depth) ==
    LET page == ps.nodes[page_id]
        page_slug == slugify(page.title)
        nodes0 == [ps.nodes EXCEPT ![page_id].depth = depth,
                                   ![page_id].order_prefix = prefix]
    IN IF page.children # <<>>
       THEN LET page_folder == Append(parent_path, page_slug)
                content_file == Append(page_folder, page_slug \o HtmlExt)
                ps1 == [nodes |-> [nodes0 EXCEPT ![page_id].resolved_path = content_file],
                        pl |-> [ps.pl EXCEPT !.operations = Append(@, Mkdir(page_folder))]]
            IN Once(ps1, LAMBDA planned :
               Once(PlanChildren(planned, page.children, 1, page_folder, depth + 1),
                    LAMBDA done : StorePath(done, page_id)))
       ELSE LET content_file == Append(parent_path, page_slug \o HtmlExt)
            IN Once([nodes |-> [nodes0 EXCEPT ![page_id].resolved_path = content_file],
                     pl |-> ps.pl], LAMBDA planned : StorePath(planned, page_id))

\* for idx, child in enumerate(children, start=1): _plan_page_recursive(child, ...)
PlanChildren(ps, children, idx, folder, depth) ==
    IF idx > Len(children) THEN ps
    ELSE Once(plan_page_recursive(ps, children[idx], folder,
                                  format_order_prefix(idx, Len(children)), depth),
              LAMBDA ps1 : PlanChildren(ps1, children, idx + 1, folder, depth))

\* variant of the orphan loop that collects the orphans in a folder of their own
RECURSIVE PlanOrphansInFolder(_, _, _, _)
PlanOrphansInFolder(ps, orphans, idx, sec_path) ==
    IF idx > Len(orphans) THEN ps
    ELSE LET page_id == orphans[idx]
             folder == Append(sec_path, <<"_", "_", "o", "r", "p", "h", "a", "n", "s", "_", "_">>)
             content_file == Append(folder, slugify(ps.nodes[page_id].title) \o HtmlExt)
             nodes1 == [ps.nodes EXCEPT
                           ![page_id].order_prefix = format_order_prefix(idx, Len(orphans)),
                           ![page_id].depth = 0,
                           ![page_id].resolved_path = content_file]
         IN Once([nodes |-> nodes1,
                  pl |-> [ps.pl EXCEPT !.operations = Append(@, Mkdir(folder))]],
                 LAMBDA planned :
            Once(StorePath(planned, page_id), LAMBDA ps1 :
                PlanOrphansInFolder(ps1, orphans, idx + 1, sec_path)))

\* the orphan loop of plan_pages
RECURSIVE PlanOrphans(_, _, _, _)
PlanOrphans(ps, orphans, idx, sec_path) ==
    IF idx > Len(orphans) THEN ps
    ELSE LET page_id == orphans[idx]
             content_file == Append(sec_path, slugify(ps.nodes[page_id].title) \o HtmlExt)
             nodes1 == [ps.nodes EXCEPT
                           ![page_id].order_prefix = format_order_prefix(idx, Len(orphans)),
                           ![page_id].depth = 0,
                           ![page_id].resolved_path = content_file]
         IN Once([nodes |-> nodes1, pl |-> ps.pl], LAMBDA planned :
            Once(StorePath(planned, page_id), LAMBDA ps1 :
                PlanOrphans(ps1, orphans, idx + 1, sec_path)))

plan_pages(pl, section) ==
    IF section.resolved_path = NonePath THEN [pl |-> pl, section |-> section]
    ELSE LET sec_path == section.resolved_path
             ps0 == [nodes |-> section.nodes, pl |-> pl]
         IN Once(PlanChildren(ps0, section.root_pages, 1, sec_path, 0), LAMBDA ps1 :
            Once(PlanOrphans(ps1, section.orphan_pages, 1, sec_path), LAMBDA ps2 :
                [pl |-> ps2.pl, section |-> [section EXCEPT !.nodes = ps2.nodes]]))

(***************************************************************************)
(* IndexGenerator.  index.md is a sequence of lines and a line is the      *)
(* sequence of the pieces its f-string concatenates: fixed text as one     *)
(* piece, titles, paths and numbers one character per piece.  index.json   *)
(* is the dict generate_index_json returns, without the date fields the    *)
(* inventories of the model do not carry.                                  *)
(***************************************************************************)
scan_timestamp == "2024-01-01T00:00:00"

account_info == [displayName |-> "User", mail |-> "user@example.com"]

tenant == "consumers"

scope == "Notes.Read"

NotebookGlyph == "(notebook) "

FolderGlyph == "(folder) "

SectionGlyph == "(section) "

WarningGlyph == "(warning)"

MaxErrorLines == 20

RECURSIVE Indent(_)
Indent(n) == IF n = 0 THEN <<>> ELSE <<"  ">> \o Indent(n - 1)

make_folder_link(path, title) ==
    IF path = NonePath THEN <<"**">> \o safe_link_label(title) \o <<"**">>
    ELSE <<"[">> \o safe_link_label(title) \o <<"]", "(">>
         \o path_to_markdown_link_encoded(path, export_root) \o <<"/", ")">>

make_page_link(path, title) ==
    <<"[">> \o safe_link_label(title) \o <<"]", "(">>
    \o path_to_markdown_link_encoded(path, export_root) \o <<")">>

append_page_link(page, indent, is_orphan) ==
    Indent(indent) \o <<"- ">>
    \o (IF page.order_prefix # <<>> THEN page.order_prefix \o <<".">> ELSE <<>>)
    \o <<" ">>
    \o (IF page.resolved_path # NonePath
        THEN make_page_link(page.resolved_path, page.title) ELSE page.title)
    \o (IF page.children # <<>>
        THEN <<" (+">> \o IntToStr(Len(page.children)) \o <<" children)">> ELSE <<>>)
    \o (IF is_orphan /\ page.orphan_reason # None
        THEN <<" ", WarningGlyph, " _", page.orphan_reason, "_">> ELSE <<>>)

\* _append_page_tree for every page of a list, at the same indent
RECURSIVE append_page_trees(_, _, _)
append_page_trees(nodes, pages, indent) ==
    IF pages = <<>> THEN <<>>
    ELSE <<append_page_link(nodes[Head(pages)], indent, FALSE)>>
         \o append_page_trees(nodes, nodes[Head(pages)].children, indent + 1)
         \o append_page_trees(nodes, Tail(pages), indent)

append_section_toc(section) ==
    (IF section.section_group_path # <<>>
     THEN << <<"#### ", FolderGlyph>> \o section.section_group_path, <<>> >> ELSE <<>>)
    \o << <<"- ", SectionGlyph>> \o make_folder_link(section.resolved_path, section.name)
          \o <<" (">> \o IntToStr(Len(section.pages)) \o <<" pages">>
          \o (IF Len(section.orphan_pages) > 0
              THEN <<", ">> \o IntToStr(Len(section.orphan_pages)) \o <<" orphaned">>
              ELSE <<>>)
          \o <<")">> >>
    \o append_page_trees(section.nodes, section.root_pages, 1)
    \o (IF section.orphan_pages # <<>>
        THEN << <<>>, <<"  - **", WarningGlyph, " Orphaned Pages**">> >>
             \o [i \in 1..Len(section.orphan_pages) |->
                    append_page_link(section.nodes[section.orphan_pages[i]], 2, TRUE)]
        ELSE <<>>)
    \o << <<>> >>

append_notebook_toc(notebook) ==
    << <<"### ", NotebookGlyph>> \o make_folder_link(notebook.resolved_path, notebook.name),
       <<>> >>
    \o Flatten([i \in 1..Len(notebook.sections) |-> append_section_toc(notebook.sections[i])])
    \o << <<>> >>

generate_index_md(nbs, totals, errs) ==
    << <<"# OneNote Export Index">>,
       <<>>,
       <<"**Generated:** ", scan_timestamp>>,
       <<"**Account:** ", account_info.displayName>>,
       <<"**Email:** ", account_info.mail>>,
       <<"**Tenant:** ", tenant>>,
       <<"**Scope:** ", scope>>,
       <<>>,
       <<"## Summary">>,
       <<>>,
       <<"| Metric | Count |">>,
       <<"|--------|-------|">>,
       <<"| Notebooks | ">> \o IntToStr(totals.notebooks) \o <<" |">>,
       <<"| Section Groups | ">> \o IntToStr(totals.section_groups) \o <<" |">>,
       <<"| Sections | ">> \o IntToStr(totals.sections) \o <<" |">>,
       <<"| Pages | ">> \o IntToStr(totals.pages) \o <<" |">>,
       <<"| Orphaned Pages | ">> \o IntToStr(totals.orphans) \o <<" |">>,
       <<>> >>
    \o (IF errs # <<>>
        THEN << <<"## ", WarningGlyph, " Errors During Scan">>, <<>> >>
             \o [i \in 1..(IF Len(errs) < MaxErrorLines THEN Len(errs) ELSE MaxErrorLines) |->
                    <<"- ", errs[i].context, ": ", errs[i].error>>]
             \o (IF Len(errs) > MaxErrorLines
                 THEN << <<"- ... and ">> \o IntToStr(Len(errs) - MaxErrorLines)
                         \o <<" more errors">> >>
                 ELSE <<>>)
             \o << <<>> >>
        ELSE <<>>)
    \o << <<"## Table of Contents">>, <<>> >>
    \o Flatten([i \in 1..Len(nbs) |-> append_notebook_toc(nbs[i])])

\* str(path) if path else None
PathStr(path) == IF path = NonePath THEN NoneStr ELSE JoinSlash(path)

RECURSIVE serialize_page(_, _, _)
serialize_page(nodes, page_id, is_orphan) ==
    LET page == nodes[page_id]
    IN [pageId |-> page.id,
        title |-> page.title,
        parentPageId |-> page.parent_page_id,
        level |-> page.level,
        order |-> page.order,
        depth |-> page.depth,
        orderPrefix |-> page.order_prefix,
        resolvedPath |-> PathStr(page.resolved_path),
        relativePathFromRoot |-> page.relative_path_from_root,
        isOrphan |-> is_orphan \/ page.is_orphan,
        orphanReason |-> page.orphan_reason,
        children |-> [i \in 1..Len(page.children) |->
                         serialize_page(nodes, page.children[i], FALSE)]]

serialize_section(section) ==
    [sectionId |-> section.id,
     name |-> section.name,
     notebookId |-> section.notebook_id,
     sectionGroupPath |-> section.section_group_path,
     resolvedPath |-> PathStr(section.resolved_path),
     pageCount |-> Len(section.pages),
     orphanCount |-> Len(section.orphan_pages),
     pages |-> [i \in 1..Len(section.root_pages) |->
                   serialize_page(section.nodes, section.root_pages[i], FALSE)],
     orphans |-> [i \in 1..Len(section.orphan_pages) |->
                     serialize_page(section.nodes, section.orphan_pages[i], TRUE)]]

serialize_notebook(notebook) ==
    [notebookId |-> notebook.id,
     name |-> notebook.name,
     resolvedPath |-> PathStr(notebook.resolved_path),
     sections |-> [i \in 1..Len(notebook.sections) |->
                      serialize_section(notebook.sections[i])],
     sectionGroups |-> notebook.section_groups]

generate_index_json(nbs, id_to_path, totals, errs) ==
    [version |-> "3.1",
     scan_timestamp |-> scan_timestamp,
     account |-> account_info,
     tenant |-> tenant,
     scope |-> scope,
     totals |-> totals,
     errors |-> errs,
     id_to_path_map |-> id_to_path,
     notebooks |-> [i \in 1..Len(nbs) |-> serialize_notebook(nbs[i])]]

(***************************************************************************)
(* IndexBuilder.  The state threaded through the processing of an          *)
(* inventory is b = [stats, errors, planner].                              *)
(***************************************************************************)
\* count_hierarchy(pages) of _process_section
RECURSIVE count_hierarchy(_, _, _)
count_hierarchy(st, nodes, pages) ==
    IF pages = <<>> THEN st
    ELSE LET p == nodes[Head(pages)]
             st1 == IF p.children # <<>>
                    THEN [st EXCEPT !.parent_pages = @ + 1,
                                    !.child_pages = @ + Len(p.children)]
                    ELSE st
         IN Once(count_hierarchy(st1, nodes, p.children), LAMBDA st2 :
                count_hierarchy(st2, nodes, Tail(pages)))

process_section(b, sec_data, notebook, parent_path, section_group_path) ==
  Once(plan_section(b.planner, SectionNode(sec_data, notebook, section_group_path),
                    parent_path), LAMBDA planned :
  Once(TreeBuild(NewTreeBuilder(sec_data.pages)), LAMBDA t :
    LET section1 == [planned.section EXCEPT !.pages = t.node_ids,
                                            !.nodes = t.nodes,
                                            !.root_pages = t.root_nodes,
                                            !.orphan_pages = t.orphan_nodes]
        stats1 == [b.stats EXCEPT !.sections = @ + 1,
                                  !.pages = @ + Len(t.node_ids),
                                  !.orphans = @ + Len(t.orphan_nodes)]
        stats2 == count_hierarchy(stats1, t.nodes, t.root_nodes)
    IN Once(plan_pages(planned.pl, section1), LAMBDA pages :
        [b |-> [stats |-> stats2,
                errors |-> IF sec_data.errors # <<>>
                           THEN b.errors \o sec_data.errors ELSE b.errors,
                planner |-> pages.pl],
         section |-> pages.section])))

\* the loop over the sections of a notebook or of a section group; r = [b, notebook]
RECURSIVE ProcessSections(_, _, _, _)
ProcessSections(r, sections, parent_path, group_path) ==
    IF sections = <<>> THEN r
    ELSE Once(process_section(r.b, Head(sections), r.notebook, parent_path, group_path),
              LAMBDA one :
         Once([b |-> one.b,
               notebook |-> [r.notebook EXCEPT !.sections = Append(@, one.section)]],
              LAMBDA r1 : ProcessSections(r1, Tail(sections), parent_path, group_path)))

\* variant that counts only the section groups directly below a notebook
RECURSIVE process_section_groups_top_only(_, _, _, _)
process_section_groups_top_only(r, section_groups, parent_path, group_path) ==
    IF section_groups = <<>> THEN r
    ELSE LET sg_data == Head(section_groups)
             new_group_path == IF group_path # <<>>
                               THEN group_path \o <<"/">> \o sg_data.name
                               ELSE sg_data.name
             r1 == IF group_path = <<>>
                   THEN [r EXCEPT !.b.stats.section_groups = @ + 1] ELSE r
         IN Once(ProcessSections(r1, sg_data.sections, parent_path, new_group_path),
                 LAMBDA r2 :
            Once(process_section_groups_top_only(r2, sg_data.section_groups,
                                                 parent_path, new_group_path),
                 LAMBDA r3 :
                process_section_groups_top_only(r3, Tail(section_groups), parent_path,
                                                group_path)))

RECURSIVE process_section_groups(_, _, _, _)
process_section_groups(r, section_groups, parent_path, group_path) ==
    IF section_groups = <<>> THEN r
    ELSE LET sg_data == Head(section_groups)
             new_group_path == IF group_path # <<>>
                               THEN group_path \o <<"/">> \o sg_data.name
                               ELSE sg_data.name
             r1 == [r EXCEPT !.b.stats.section_groups = @ + 1]
         IN Once(ProcessSections(r1, sg_data.sections, parent_path, new_group_path),
                 LAMBDA r2 :
            Once(process_section_groups(r2, sg_data.section_groups,
                                        parent_path, new_group_path), LAMBDA r3 :
                process_section_groups(r3, Tail(section_groups), parent_path,
                                       group_path)))

process_notebook(b, nb_data) ==
    Once(plan_notebook(b.planner, NotebookNode(nb_data)), LAMBDA planned :
        LET nb_path == planned.notebook.resolved_path
            r0 == [b |-> [b EXCEPT !.planner = planned.pl,
                                   !.stats.notebooks = @ + 1],
                   notebook |-> planned.notebook]
        IN Once(ProcessSections(r0, nb_data.sections, nb_path, <<>>), LAMBDA r1 :
               process_section_groups(r1, nb_data.section_groups, nb_path, <<>>)))

\* for nb_data in preflight_data['notebooks']: self.notebooks.append(...); r = [b, notebooks]
RECURSIVE ProcessNotebooks(_, _)
ProcessNotebooks(r, nb_list) ==
    IF nb_list = <<>> THEN r
    ELSE Once(process_notebook(r.b, Head(nb_list)), LAMBDA one :
         Once([b |-> one.b, notebooks |-> Append(r.notebooks, one.notebook)],
              LAMBDA r1 : ProcessNotebooks(r1, Tail(nb_list))))

(***************************************************************************)
(* Inputs of the page tree builder: every list of up to MaxPages page      *)
(* records with pairwise distinct ids, levels 0..MaxLevel in any           *)
(* combination, and orders 0..MaxOrder in any array order, ties included   *)
(* (the code only compares orders, so the orders used are 0..k without     *)
(* gaps).  The first record may have the empty id (page.get('id', '') of   *)
(* a record without id); the first record may carry a parentPageId naming  *)
(* an unknown page, or the second one a parentPageId naming the first.     *)
(***************************************************************************)
PageIds == <<"p1", "p2", "p3", "p4", "p5">>

PageTitles == << <<"A">>, <<"B">>, <<"C">>, <<"D">>, <<"E">> >>

ExternalParent == "ext"

RawPages(n, emptyAt, parentAt, levels, orders) ==
    [i \in 1..n |->
        [id |-> IF i = emptyAt THEN "" ELSE PageIds[i],
         title |-> PageTitles[i],
         level |-> levels[i],
         order |-> orders[i],
         parentPageId |-> IF i # parentAt THEN None
                          ELSE IF i = 1 THEN ExternalParent ELSE PageIds[1]]]

DenseOrders(n) ==
    {od \in [1..n -> 0..MaxOrder] :
        \A i \in 1..n : od[i] = 0 \/ \E j \in 1..n : od[j] = od[i] - 1}

(***************************************************************************)
(* Initial values of the IndexBuilder side (used by both specifications)   *)
(***************************************************************************)
InitStats ==
    [notebooks |-> 0, section_groups |-> 0, sections |-> 0, pages |-> 0,
     orphans |-> 0, parent_pages |-> 0, child_pages |-> 0]

InitPlanner == [id_to_path |-> <<>>, operations |-> <<>>]

EmptyInventory == [notebooks |-> <<>>, errors |-> <<>>]

StackIdle ==
    /\ nesting = 0
    /\ frames = 0
    /\ dfs_depth = 0
    /\ spc = "idle"

TextIdle ==
    /\ arg_text = <<>>
    /\ arg_max_length = DefaultMaxLength
    /\ called = None
    /\ returned = NoneStr

BuilderIdle ==
    /\ preflight_data = EmptyInventory
    /\ built = 0
    /\ notebooks = <<>>
    /\ stats = InitStats
    /\ errors = <<>>
    /\ errors_aliased = FALSE
    /\ planner = InitPlanner
    /\ index_md = <<>>
    /\ index_json = None
    /\ dirs = {export_root}
    /\ files = {}
    /\ exported = <<>>
    /\ missing_links = <<>>
    /\ pc = "new"

(***************************************************************************)
(* Specification SpecTree: PageTreeBuilder.build() on one page list        *)
(***************************************************************************)
InitTree ==
    /\ \E n \in 0..MaxPages, e \in 0..1, p \in 0..2 :
          \E lv \in [1..n -> 0..MaxLevel], od \in DenseOrders(n) :
              tb = NewTreeBuilder(RawPages(n, e, p, lv, od))
    /\ tpc = "start"
    /\ BuilderIdle
    /\ TextIdle
    /\ StackIdle

\* if not self.raw_pages: return [], []
TBuildEmpty ==
    /\ tpc = "start"
    /\ tb.raw_pages = <<>>
    /\ tpc' = "done"
    /\ UNCHANGED <<tb, builderVars, textVars, stackVars>>

TCreateNodes ==
    /\ tpc = "start"
    /\ tb.raw_pages # <<>>
    /\ tb' = create_nodes(tb)
    /\ tpc' = "created"
    /\ UNCHANGED <<builderVars, textVars, stackVars>>

TBuildRelationships ==
    /\ tpc = "created"
    /\ tb' = build_relationships_from_levels(tb)
    /\ tpc' = "related"
    /\ UNCHANGED <<builderVars, textVars, stackVars>>

TDetectCycles ==
    /\ tpc = "related"
    /\ tb' = detect_cycles_and_orphans(tb)
    /\ tpc' = "checked"
    /\ UNCHANGED <<builderVars, textVars, stackVars>>

TCategorize ==
    /\ tpc = "checked"
    /\ tb' = categorize_nodes(tb)
    /\ tpc' = "done"
    /\ UNCHANGED <<builderVars, textVars, stackVars>>

NextTree ==
    \/ TBuildEmpty
    \/ TCreateNodes
    \/ TBuildRelationships
    \/ TDetectCycles
    \/ TCategorize

SpecTree == InitTree /\ [][NextTree]_vars

(***************************************************************************)
(* Inventories handed to IndexBuilder.                                     *)
(*                                                                         *)
(* PageInventory: one notebook with one section whose page list varies:    *)
(* up to MaxPages pages, every combination of levels 0..MaxLevel, array    *)
(* order equal or opposite to the `order` sequence, the first page with    *)
(* or without an id, titles taken from one of the title rows below.        *)
(*                                                                         *)
(* GroupInventory: a notebook with one direct section and a chain of up    *)
(* to MaxGroupDepth nested section groups, each holding one section, the   *)
(* group names taken from GroupNames; optionally a second notebook whose   *)
(* page ids repeat those of the first; with or without scan errors.        *)
(*                                                                         *)
(* TwoSectionInventory: a notebook with two direct sections.               *)
(***************************************************************************)
TitleRows ==
    << << <<"A">>, <<"B">>, <<"C">>, <<"D">>, <<"E">> >>,
       << <<"X", ".", "h", "t", "m", "l">>, <<"Y">>, <<"X">>, <<"Y">>, <<"X">> >>,
       << <<>>, <<" ">>, <<"a", "/", "b">>, <<".", "c", " ">>, <<"a", "_", "b">> >>,
       << <<"a", " ", "b">>, <<" ", "#", "%", "\t">>, <<"\t">>, <<"5", "%">>,
          <<"a", " ", "b">> >> >>

GroupNames == { <<"G">>, <<"A", "/", "B">>, <<>> }

NotebookNames == { <<"N", "B">>, <<"N", ":", "1">>, <<" ">> }

SectionIds == <<"s1", "s2", "s3", "s4", "s5">>

SectionPages(n, emptyFirst, reversed, levels, row) ==
    [i \in 1..n |->
        [id |-> IF i = 1 /\ emptyFirst THEN "" ELSE PageIds[i],
         title |-> TitleRows[row][i],
         level |-> levels[i],
         order |-> IF reversed THEN n - i ELSE i - 1,
         parentPageId |-> None]]

ErrorRecord(context) == [context |-> context, error |-> "failed"]

SectionInput(id, name, pages, errs) ==
    [id |-> id, name |-> name, pages |-> pages, errors |-> errs]

PageInventory(pages) ==
    [notebooks |->
        << [id |-> "nb1", name |-> <<"N", "B">>,
            sections |-> << SectionInput("s1", <<"S">>, pages, <<>>) >>,
            section_groups |-> <<>>] >>,
     errors |-> <<>>]

ParentAndChild ==
    << [id |-> "p1", title |-> <<"A">>, level |-> 0, order |-> 0, parentPageId |-> None],
       [id |-> "p2", title |-> <<"B">>, level |-> 1, order |-> 1, parentPageId |-> None] >>

SinglePage ==
    << [id |-> "p1", title |-> <<"A">>, level |-> 0, order |-> 0, parentPageId |-> None] >>

\* the chain of nested groups names[k..]; the group at depth k holds section s(k+1)
RECURSIVE GroupChain(_, _, _)
GroupChain(names, k, withErrors) ==
    IF k > Len(names) THEN <<>>
    ELSE << [name |-> names[k],
             sections |-> << SectionInput(SectionIds[k + 1], <<"S", "g">>, SinglePage,
                                 IF withErrors /\ k = Len(names)
                                 THEN <<ErrorRecord("group")>> ELSE <<>>) >>,
             section_groups |-> GroupChain(names, k + 1, withErrors)] >>

GroupInventory(nbName, names, second, withErrors) ==
    [notebooks |->
        << [id |-> "nb1", name |-> nbName,
            sections |-> << SectionInput("s1", <<"S">>, ParentAndChild,
                                IF withErrors THEN <<ErrorRecord("section")>> ELSE <<>>) >>,
            section_groups |-> GroupChain(names, 1, withErrors)] >>
        \o (IF second
            THEN << [id |-> "nb2", name |-> <<"N", "2">>,
                     sections |-> << SectionInput("s1", <<"S">>, SinglePage, <<>>) >>,
                     section_groups |-> <<>>] >>
            ELSE <<>>),
     errors |-> IF withErrors THEN <<ErrorRecord("scan")>> ELSE <<>>]

GroupNameSeqs(k) == [1..k -> GroupNames]

\* a notebook with two direct sections, in either array order, the pages of
\* the first in either array order
TwoSectionInventory(swapped, reversed) ==
    LET first == SectionInput("s1", <<"S">>,
                     IF reversed THEN <<ParentAndChild[2], ParentAndChild[1]>>
                     ELSE ParentAndChild, <<>>)
        other == SectionInput("s2", <<"T">>, SinglePage, <<>>)
    IN [notebooks |->
           << [id |-> "nb1", name |-> <<"N", "B">>,
               sections |-> IF swapped THEN <<other, first>> ELSE <<first, other>>,
               section_groups |-> <<>>] >>,
        errors |-> <<>>]

(***************************************************************************)
(* Specification Spec: an inventory is built into an index, the directory  *)
(* operations are executed, the content exporter or a caller creates page  *)
(* files, and the links are validated.                                     *)
(***************************************************************************)
IndexIdle ==
    /\ built = 0
    /\ notebooks = <<>>
    /\ stats = InitStats
    /\ errors = <<>>
    /\ errors_aliased = FALSE
    /\ planner = InitPlanner
    /\ index_md = <<>>
    /\ index_json = None
    /\ dirs = {export_root}
    /\ files = {}
    /\ exported = <<>>
    /\ missing_links = <<>>
    /\ pc = "new"
    /\ tb = NewTreeBuilder(<<>>)
    /\ tpc = "idle"
    /\ TextIdle
    /\ StackIdle

Init ==
    /\ \/ \E n \in 0..MaxPages, e \in BOOLEAN, rev \in BOOLEAN,
             row \in 1..Len(TitleRows) :
             \E lv \in [1..n -> 0..MaxLevel] :
                 preflight_data = PageInventory(SectionPages(n, e, rev, lv, row))
       \/ \E k \in 0..MaxGroupDepth, nbName \in NotebookNames,
             second \in BOOLEAN, withErrors \in BOOLEAN :
             \E names \in GroupNameSeqs(k) :
                 preflight_data = GroupInventory(nbName, names, second, withErrors)
       \/ \E swapped \in BOOLEAN, reversed \in BOOLEAN :
             preflight_data = TwoSectionInventory(swapped, reversed)
    /\ IndexIdle

\* build_index(export_root, preflight_data, ...): build() of a new IndexBuilder
build_index(data) ==
    Once(ProcessNotebooks([b |-> [stats |-> InitStats, errors |-> <<>>,
                                  planner |-> InitPlanner],
                           notebooks |-> <<>>], data.notebooks), LAMBDA r :
        [notebooks |-> r.notebooks,
         index_md_content |-> generate_index_md(r.notebooks, r.b.stats, data.errors),
         index_json_data |-> generate_index_json(r.notebooks, r.b.planner.id_to_path,
                                                 r.b.stats, data.errors),
         id_to_path_map |-> r.b.planner.id_to_path,
         filesystem_ops |-> r.b.planner.operations,
         stats |-> r.b.stats,
         errors |-> data.errors])

\* IndexBuilder.build()
Build ==
    /\ pc \in {"new", "built"}
    /\ built < MaxBuilds
    /\ \E r \in {ProcessNotebooks(
                    [b |-> [stats |-> stats, errors |-> errors, planner |-> planner],
                     notebooks |-> notebooks],
                    preflight_data.notebooks)} :
       LET data == IF errors_aliased
                   THEN [preflight_data EXCEPT !.errors = r.b.errors]
                   ELSE preflight_data
       IN /\ notebooks' = r.notebooks
          /\ stats' = r.b.stats
          /\ planner' = r.b.planner
          /\ preflight_data' = data
          /\ errors' = data.errors
          /\ index_md' = generate_index_md(r.notebooks, r.b.stats, data.errors)
          /\ index_json' = generate_index_json(r.notebooks, r.b.planner.id_to_path,
                                               r.b.stats, data.errors)
    /\ errors_aliased' = TRUE
    /\ built' = built + 1
    /\ pc' = "built"
    /\ UNCHANGED <<dirs, files, exported, missing_links, treeVars, textVars, stackVars>>

\* the proper prefixes of a path and the path itself, from the export root down
Ancestors(path) == {SubSeq(path, 1, k) : k \in 1..Len(path)}

\* path.mkdir(parents=True, exist_ok=True) on a tree without regular files
MkdirParents(ds, path) == ds \cup Ancestors(path)

RECURSIVE RunOps(_, _)
RunOps(ds, ops) ==
    IF ops = <<>> THEN ds
    ELSE RunOps(IF Head(ops)[1] = "mkdir" THEN MkdirParents(ds, Head(ops)[2]) ELSE ds,
                Tail(ops))

\* execute_filesystem_ops(result.filesystem_ops)
ExecuteFilesystemOps ==
    /\ pc \in {"built", "ready"}
    /\ dirs' = RunOps(dirs, planner.operations)
    /\ pc' = "ready"
    /\ UNCHANGED <<preflight_data, built, notebooks, stats, errors, errors_aliased,
                   index_md, index_json,
                   planner, files, exported, missing_links, treeVars, textVars, stackVars>>

(***************************************************************************)
(* The content exporter (onenote_exporter.py).  Its state while it walks   *)
(* a notebook is ex = [dirs, files, exported, crashed, n]: the disk, the   *)
(* pages handled so far, whether an exception escaped, and the number of   *)
(* page requests made so far in the notebook.  Of a page's output only the *)
(* html file is kept: the pages hold no images or attachments, and the     *)
(* Joplin/ENEX renderings, index.md, index.json and run.log are files      *)
(* beside the html files that no statement below refers to.                *)
(***************************************************************************)
\* path.mkdir(exist_ok=True): r = [dirs, ok]
MkdirExistOk(ds, fs, path) ==
    IF path \in fs \/ Front(path) \notin ds
    THEN [dirs |-> ds, ok |-> FALSE]
    ELSE [dirs |-> ds \cup {path}, ok |-> TRUE]

\* one iteration of the loop of _build_page_hierarchy; st = [hierarchy, stack]
RECURSIVE PopParentStack(_, _)
PopParentStack(parent_stack, level) ==
    IF parent_stack # <<>> /\ Last(parent_stack)[2] >= level
    THEN PopParentStack(Front(parent_stack), level)
    ELSE parent_stack

HierarchyStep(st, page) ==
    LET stack == PopParentStack(st.stack, page.level)
        hierarchy ==
            IF stack # <<>> /\ page.level > 0
            THEN LET parent_id == Last(stack)[1]
                 IN DictPut(st.hierarchy, parent_id,
                            IF DictHas(st.hierarchy, parent_id)
                            THEN Append(DictGet(st.hierarchy, parent_id), page.id)
                            ELSE <<page.id>>)
            ELSE st.hierarchy
    IN [hierarchy |-> hierarchy, stack |-> Append(stack, <<page.id, page.level>>)]

RECURSIVE HierarchyLoop(_, _)
HierarchyLoop(st, pages) ==
    IF pages = <<>> THEN st
    ELSE Once(HierarchyStep(st, Head(pages)), LAMBDA st1 : HierarchyLoop(st1, Tail(pages)))

\* sorted(pages, key=lambda p: p.get('order', 0)): stable
RECURSIVE InsertPage(_, _)
InsertPage(s, page) ==
    IF s = <<>> THEN <<page>>
    ELSE IF Head(s).order <= page.order THEN <<Head(s)>> \o InsertPage(Tail(s), page)
    ELSE <<page>> \o s

RECURSIVE SortPages(_)
SortPages(pages) ==
    IF pages = <<>> THEN <<>> ELSE InsertPage(SortPages(Front(pages)), Last(pages))

build_page_hierarchy(pages) ==
    HierarchyLoop([hierarchy |-> <<>>, stack |-> <<>>], SortPages(pages)).hierarchy

\* _export_page; `failed` is the set of request numbers whose content request fails
export_page(ex, where, page_info, section_folder, hierarchy, failed) ==
    LET safe_title == sanitize_filename(page_info.title)
        has_children == DictHas(hierarchy, page_info.id)
        made == IF has_children
                THEN MkdirExistOk(ex.dirs, ex.files, Append(section_folder, safe_title))
                ELSE [dirs |-> ex.dirs, ok |-> TRUE]
        page_folder == IF has_children THEN Append(section_folder, safe_title)
                       ELSE section_folder
        html_path == Append(page_folder, safe_title \o HtmlExt)
        requested == made.ok
        n1 == IF requested THEN ex.n + 1 ELSE ex.n
        written == requested /\ n1 \notin failed /\ html_path \notin made.dirs
    IN [ex EXCEPT !.dirs = made.dirs,
                  !.files = IF written THEN @ \cup {html_path} ELSE @,
                  !.n = n1,
                  !.exported = Append(@, [section |-> where,
                                          page_id |-> page_info.id,
                                          html_path |-> IF made.ok THEN html_path
                                                        ELSE NonePath,
                                          written |-> written])]

RECURSIVE ExportPages(_, _, _, _, _, _)
ExportPages(ex, where, pages, section_folder, hierarchy, failed) ==
    IF pages = <<>> THEN ex
    ELSE Once(export_page(ex, where, Head(pages), section_folder, hierarchy, failed),
              LAMBDA ex1 : ExportPages(ex1, where, Tail(pages), section_folder,
                                       hierarchy, failed))

\* _export_section; xs = [ex, sec]: sec counts the sections of the notebook seen so far
export_section(xs, section_data, parent_folder, failed) ==
    LET sec_folder == Append(parent_folder, sanitize_filename(section_data.name))
        made == MkdirExistOk(xs.ex.dirs, xs.ex.files, sec_folder)
        sec == xs.sec + 1
    IN IF xs.ex.crashed THEN xs
       ELSE IF ~made.ok THEN [ex |-> [xs.ex EXCEPT !.crashed = TRUE], sec |-> sec]
       ELSE Once(build_page_hierarchy(section_data.pages), LAMBDA page_hierarchy :
                [ex |-> ExportPages([xs.ex EXCEPT !.dirs = made.dirs], sec,
                                    section_data.pages, sec_folder, page_hierarchy,
                                    failed),
                 sec |-> sec])

RECURSIVE ExportSections(_, _, _, _)
ExportSections(xs, sections, parent_folder, failed) ==
    IF sections = <<>> THEN xs
    ELSE Once(export_section(xs, Head(sections), parent_folder, failed),
              LAMBDA xs1 : ExportSections(xs1, Tail(sections), parent_folder, failed))

\* _export_section_group for every group of the list
RECURSIVE export_section_groups(_, _, _, _)
export_section_groups(xs, groups, parent_folder, failed) ==
    IF groups = <<>> \/ xs.ex.crashed THEN xs
    ELSE LET sg_data == Head(groups)
             sg_folder == Append(parent_folder, sanitize_filename(sg_data.name))
             made == MkdirExistOk(xs.ex.dirs, xs.ex.files, sg_folder)
         IN Once(IF made.ok
                 THEN Once(ExportSections([xs EXCEPT !.ex.dirs = made.dirs],
                                          sg_data.sections, sg_folder, failed),
                           LAMBDA xs1 : export_section_groups(
                                            xs1, sg_data.section_groups, sg_folder, failed))
                 ELSE [xs EXCEPT !.ex.crashed = TRUE],
                 LAMBDA xs2 : export_section_groups(xs2, Tail(groups), parent_folder,
                                                    failed))

\* _export_notebook
export_notebook(ex, nb_data, failed) ==
    LET nb_folder == Append(export_root, sanitize_filename(nb_data.name))
        made == MkdirExistOk(ex.dirs, ex.files, nb_folder)
    IN IF ~made.ok THEN [ex EXCEPT !.crashed = TRUE]
       ELSE Once(ExportSections([ex |-> [ex EXCEPT !.dirs = made.dirs], sec |-> 0],
                                nb_data.sections, nb_folder, failed),
                 LAMBDA xs : export_section_groups(xs, nb_data.section_groups,
                                                   nb_folder, failed).ex)

\* number of pages below a list of sections and a list of section groups
RECURSIVE CountPages(_, _)
CountPages(sections, groups) ==
    IF sections # <<>>
    THEN Len(Head(sections).pages) + CountPages(Tail(sections), groups)
    ELSE IF groups # <<>>
    THEN CountPages(Head(groups).sections, Head(groups).section_groups)
             + CountPages(<<>>, Tail(groups))
    ELSE 0

\* one iteration of the notebook loop of export_all, which runs after
\* write_index_files has built the index once and executed its operations;
\* exported[k] lists what _export_page did for each page of notebook k
ExportNotebook ==
    /\ pc \in {"ready", "exporting"}
    /\ built = 1
    /\ Len(exported) < Len(preflight_data.notebooks)
    /\ LET nb_data == preflight_data.notebooks[Len(exported) + 1]
       IN \E failed \in SUBSET (1..CountPages(nb_data.sections, nb_data.section_groups)) :
             \E ex \in {export_notebook(
                           [dirs |-> dirs, files |-> files, exported |-> <<>>,
                            crashed |-> FALSE, n |-> 0],
                           nb_data, failed)} :
                /\ dirs' = ex.dirs
                /\ files' = ex.files
                /\ exported' = Append(exported, ex.exported)
                /\ pc' = IF ex.crashed THEN "crashed" ELSE "exporting"
    /\ UNCHANGED <<preflight_data, built, notebooks, stats, errors, errors_aliased,
                   index_md, index_json,
                   planner, missing_links, treeVars, textVars, stackVars>>

(***************************************************************************)
(* A caller that creates the page files itself, at the planned paths.      *)
(***************************************************************************)
\* export_root / path_str: pathlib drops empty and "." components
PathUnder(base, path_str) ==
    base \o SelectSeq(SplitSlash(path_str, <<>>), LAMBDA c : c # <<>> /\ c # <<".">>)

\* page_path.parent.mkdir(parents=True, exist_ok=True); page_path.touch()
\* d = [dirs, files, crashed]
TouchPage(d, path_str) ==
  LET page_path == PathUnder(export_root, path_str) IN
    IF d.crashed THEN d
    ELSE IF Ancestors(Front(page_path)) \cap d.files # {}
    THEN [d EXCEPT !.crashed = TRUE]
    ELSE [d EXCEPT !.dirs = MkdirParents(@, Front(page_path)),
                   !.files = IF page_path \in d.dirs THEN @ ELSE @ \cup {page_path}]

RECURSIVE TouchPages(_, _)
TouchPages(d, id_to_path) ==
    IF id_to_path = <<>> THEN d
    ELSE Once(TouchPage(d, Head(id_to_path).value),
              LAMBDA d1 : TouchPages(d1, Tail(id_to_path)))

\* create_page_files(result): a file for every value of id_to_path_map
CreatePageFiles ==
    /\ pc = "ready"
    /\ \E d \in {TouchPages([dirs |-> dirs, files |-> files, crashed |-> FALSE],
                              planner.id_to_path)} :
          /\ dirs' = d.dirs
          /\ files' = d.files
          /\ pc' = IF d.crashed THEN "crashed" ELSE "touched"
    /\ UNCHANGED <<preflight_data, built, notebooks, stats, errors, errors_aliased,
                   index_md, index_json,
                   planner, exported, missing_links, treeVars, textVars, stackVars>>

(***************************************************************************)
(* validate_index_links(export_root, result)                               *)
(***************************************************************************)
\* check_path: the records after looking at one path
check_path(missing, ds, fs, path, notebook_id, section_id, page_id) ==
    IF path = NonePath THEN missing
    ELSE IF path \in ds \cup fs THEN missing
    ELSE Append(missing, [target |-> path, notebook_id |-> notebook_id,
                          section_id |-> section_id, page_id |-> page_id])

RECURSIVE check_pages(_, _, _, _, _, _)
check_pages(missing, ds, fs, notebook, section, pages) ==
    IF pages = <<>> THEN missing
    ELSE LET page == section.nodes[Head(pages)]
         IN Once(check_path(missing, ds, fs, page.resolved_path,
                            notebook.id, section.id, page.id), LAMBDA m1 :
            Once(check_pages(m1, ds, fs, notebook, section, page.children), LAMBDA m2 :
                check_pages(m2, ds, fs, notebook, section, Tail(pages))))

RECURSIVE CheckSections(_, _, _, _, _)
CheckSections(missing, ds, fs, notebook, sections) ==
    IF sections = <<>> THEN missing
    ELSE LET section == Head(sections)
         IN Once(check_path(missing, ds, fs, section.resolved_path,
                            notebook.id, section.id, None), LAMBDA m1 :
            Once(check_pages(m1, ds, fs, notebook, section, section.root_pages),
                 LAMBDA m2 :
            Once(check_pages(m2, ds, fs, notebook, section, section.orphan_pages),
                 LAMBDA m3 : CheckSections(m3, ds, fs, notebook, Tail(sections)))))

RECURSIVE CheckNotebooks(_, _, _, _)
CheckNotebooks(missing, ds, fs, nbs) ==
    IF nbs = <<>> THEN missing
    ELSE LET notebook == Head(nbs)
         IN Once(check_path(missing, ds, fs, notebook.resolved_path,
                            notebook.id, None, None), LAMBDA m1 :
            Once(CheckSections(m1, ds, fs, notebook, notebook.sections), LAMBDA m2 :
                CheckNotebooks(m2, ds, fs, Tail(nbs))))

validate_index_links(ds, fs, nbs) == CheckNotebooks(<<>>, ds, fs, nbs)

\* the call a caller makes at any time, and export_all makes after the last notebook
ValidateIndexLinks ==
    /\ \/ pc \in {"built", "ready", "touched"}
       \/ pc = "exporting" /\ Len(exported) = Len(preflight_data.notebooks)
    /\ missing_links' = validate_index_links(dirs, files, notebooks)
    /\ pc' = "validated"
    /\ UNCHANGED <<preflight_data, built, notebooks, stats, errors, errors_aliased,
                   index_md, index_json,
                   planner, dirs, files, exported, treeVars, textVars, stackVars>>

Next ==
    \/ Build
    \/ ExecuteFilesystemOps
    \/ ExportNotebook
    \/ CreatePageFiles
    \/ ValidateIndexLinks

Spec == Init /\ [][Next]_vars

\* build() is one synchronous call: once it is called it runs to its return.
\* This is weak fairness of Build, written with the guard of Build for
\* ENABLED <<Build>>_vars (the other conjuncts of Build assign the next state)
\* and with the increment of built for the step <<Build>>_vars.
BuildCalled == pc \in {"new", "built"} /\ built < MaxBuilds

FairSpec == Spec /\ ([]<>(~BuildCalled) \/ []<><<built' = built + 1>>_vars)

(***************************************************************************)
(* Vocabulary for statements about a page tree builder t                   *)
(***************************************************************************)
(* Specification SpecText: a utility function is applied to one string.    *)
(* The strings are all strings of up to MaxTextLen characters of Alphabet  *)
(* and, for the sanitizing functions, also such strings (one character     *)
(* shorter) behind a run of letters that reaches to the default maximal    *)
(* length or just short of it.                                             *)
(***************************************************************************)
MaxTextLen == 3

Alphabet == {"a", ".", " ", "\t", "/", "?", "%", "#"}

Texts(n) == UNION {[1..k -> Alphabet] : k \in 0..n}

Filler(n) == [i \in 1..n |-> "a"]

FillLengths == (DefaultMaxLength - 2)..DefaultMaxLength

\* the strings handed to the two sanitizing functions
LongAndShortTexts ==
    Texts(MaxTextLen)
        \cup UNION {{Filler(n) \o tail : tail \in Texts(MaxTextLen - 1)} : n \in FillLengths}

InitText ==
    /\ TextIdle
    /\ StackIdle
    /\ BuilderIdle
    /\ tb = NewTreeBuilder(<<>>)
    /\ tpc = "idle"

\* the values of max_length a caller hands over: the default and smaller ones
MaxLengths == {0, 3, 8, DefaultMaxLength}

CallSanitizePathName ==
    /\ called = None
    /\ \E text \in LongAndShortTexts, max_length \in MaxLengths :
          /\ arg_text' = text
          /\ arg_max_length' = max_length
          /\ returned' = sanitize_path_name(text, max_length)
    /\ called' = "sanitize_path_name"
    /\ UNCHANGED <<builderVars, treeVars, stackVars>>

CallSanitizeFilename ==
    /\ called = None
    /\ \E text \in LongAndShortTexts :
          /\ arg_text' = text
          /\ returned' = sanitize_filename(text)
    /\ called' = "sanitize_filename"
    /\ UNCHANGED <<arg_max_length, builderVars, treeVars, stackVars>>

CallSafeLinkLabel ==
    /\ called = None
    /\ \E text \in Texts(MaxTextLen) :
          /\ arg_text' = text
          /\ returned' = safe_link_label(text)
    /\ called' = "safe_link_label"
    /\ UNCHANGED <<arg_max_length, builderVars, treeVars, stackVars>>

\* the characters of the paths handed to md_link_target
LinkAlphabet == {"a", "/", "\\", " ", "#", "?", "%", "2", "0"}

LinkTexts(n) == UNION {[1..k -> LinkAlphabet] : k \in 0..n}

CallMdLinkTarget ==
    /\ called = None
    /\ \E text \in LinkTexts(MaxTextLen) :
          /\ arg_text' = text
          /\ returned' = md_link_target(text)
    /\ called' = "md_link_target"
    /\ UNCHANGED <<arg_max_length, builderVars, treeVars, stackVars>>

NextText ==
    \/ CallSanitizePathName
    \/ CallSanitizeFilename
    \/ CallSafeLinkLabel
    \/ CallMdLinkTarget

SpecText == InitText /\ [][NextText]_vars

(***************************************************************************)
(* Specification SpecStack: the call stack of the cycle-detection pass     *)
(* over a section whose pages are nested one in the other (page k is at    *)
(* level k - 1 and is the only child of page k - 1).  dfs calls itself for *)
(* every child, so the pass over such a section has one call of dfs open   *)
(* per page.  The section is represented by its number of pages only.      *)
(***************************************************************************)
\* sys.getrecursionlimit() of CPython
RecursionLimit == 1000

\* frames in use when _detect_cycles_and_orphans runs: the caller's module,
\* PageTreeBuilder.build and the pass itself
MinFrames == 3

\* further frames of callers above them (IndexBuilder.build, _process_notebook,
\* _process_section, ...)
MaxExtraFrames == 4

MaxNesting == 3

\* small sections, and sections about as deep as the interpreter's stack
Nestings ==
    (1..MaxNesting)
        \cup ((RecursionLimit - MinFrames - MaxExtraFrames - 2)..RecursionLimit)

InitStack ==
    /\ nesting \in Nestings
    /\ frames \in MinFrames..(MinFrames + MaxExtraFrames)
    /\ dfs_depth = 0
    /\ spc = "dfs"
    /\ TextIdle
    /\ BuilderIdle
    /\ tb = NewTreeBuilder(<<>>)
    /\ tpc = "idle"

\* dfs(node_id) is called for the first page or for the child of the current
\* one; its body calls visited.add and self.nodes.get, one level deeper
SDfsCall ==
    /\ spc = "dfs"
    /\ dfs_depth < nesting
    /\ frames + 2 <= RecursionLimit
    /\ frames' = frames + 1
    /\ dfs_depth' = dfs_depth + 1
    /\ UNCHANGED <<nesting, spc, builderVars, treeVars, textVars>>

\* the interpreter refuses the call: RecursionError, which nothing catches
SDfsRaise ==
    /\ spc = "dfs"
    /\ dfs_depth < nesting
    /\ frames + 2 > RecursionLimit
    /\ spc' = "raised"
    /\ UNCHANGED <<nesting, frames, dfs_depth, builderVars, treeVars, textVars>>

\* the last page has no child: its dfs returns False, and so do the calls above it
SDfsReturn ==
    /\ \/ spc = "dfs" /\ dfs_depth = nesting
       \/ spc = "returning"
    /\ dfs_depth > 0
    /\ frames' = frames - 1
    /\ dfs_depth' = dfs_depth - 1
    /\ spc' = "returning"
    /\ UNCHANGED <<nesting, builderVars, treeVars, textVars>>

\* every page is visited: the loop over self.nodes ends
SDetectDone ==
    /\ spc = "returning"
    /\ dfs_depth = 0
    /\ spc' = "done"
    /\ UNCHANGED <<nesting, frames, dfs_depth, builderVars, treeVars, textVars>>

NextStack ==
    \/ SDfsCall
    \/ SDfsRaise
    \/ SDfsReturn
    \/ SDetectDone

SpecStack == InitStack /\ [][NextStack]_vars

(***************************************************************************)
Count(x, s) == Cardinality({i \in 1..Len(s) : s[i] = x})

\* the pages whose children list contains p
AttachedTo(t, p) == {q \in DOMAIN t.nodes : p \in Range(t.nodes[q].children)}

InputIndex(t, id) == CHOOSE i \in 1..Len(t.raw_pages) : t.raw_pages[i].id = id

\* a comes before b in the ascending `order` sequence (ties: array order)
Precedes(t, a, b) ==
    \/ t.nodes[a].order < t.nodes[b].order
    \/ /\ t.nodes[a].order = t.nodes[b].order
       /\ InputIndex(t, a) < InputIndex(t, b)

\* the pages before p in `order` sequence that have a strictly smaller level
SmallerBefore(t, p) ==
    {q \in DOMAIN t.nodes : Precedes(t, q, p) /\ t.nodes[q].level < t.nodes[p].level}

\* the most recent of them
NearestSmaller(t, p) ==
    CHOOSE q \in SmallerBefore(t, p) :
        \A r \in SmallerBefore(t, p) \ {q} : Precedes(t, r, q)

\* pre-order walk of the subtree below (and including) id
RECURSIVE Walk(_, _)
Walk(t, id) ==
    <<id>> \o Flatten([i \in 1..Len(t.nodes[id].children) |->
                          Walk(t, t.nodes[id].children[i])])

WalkAll(t, ids) == Flatten([i \in 1..Len(ids) |-> Walk(t, ids[i])])

\* pages reachable from the set S in at most k steps along children edges
RECURSIVE ReachWithin(_, _, _)
ReachWithin(t, S, k) ==
    LET step == UNION {Range(t.nodes[x].children) : x \in S}
    IN IF k = 0 THEN {} ELSE step \cup ReachWithin(t, step, k - 1)

Descendants(t, id) == ReachWithin(t, {id}, Cardinality(DOMAIN t.nodes))

\* following parent links from p ends at an unattached page, no page seen twice
RECURSIVE ParentWalkEnds(_, _, _)
ParentWalkEnds(t, p, seen) ==
    IF AttachedTo(t, p) = {} THEN TRUE
    ELSE LET q == t.nodes[p].parent_page_id
         IN /\ q \in DOMAIN t.nodes
            /\ q \notin seen \cup {p}
            /\ ParentWalkEnds(t, q, seen \cup {p})

Relations == {"related", "checked", "done"}

(***************************************************************************)
(* C1: after build() every input page is reached exactly once by walking   *)
(* the children edges from the entries of root_nodes and orphan_nodes, and *)
(* |root_nodes| + |orphan_nodes| + (pages that have a parent) is the       *)
(* input length.                                                           *)
(***************************************************************************)
C1_EveryPageReachedOnce ==
    (tpc = "done" /\ tb.raw_pages # <<>>) =>
        LET visits == WalkAll(tb, tb.root_nodes) \o WalkAll(tb, tb.orphan_nodes)
            withParent == {p \in DOMAIN tb.nodes : AttachedTo(tb, p) # {}}
        IN /\ \A p \in DOMAIN tb.nodes : Count(p, visits) = 1
           /\ Len(tb.root_nodes) + Len(tb.orphan_nodes) + Cardinality(withParent)
                  = Len(tb.raw_pages)

C3_RootsAndOrphans ==
    (tpc = "done" /\ tb.raw_pages # <<>>) =>
        \A p \in DOMAIN tb.nodes :
            LET n == tb.nodes[p]
            IN /\ p \in Range(tb.root_nodes)
                    <=> (~n.is_orphan /\ (n.level = 0 \/ n.parent_page_id = None))
               /\ p \in Range(tb.orphan_nodes) <=> n.is_orphan
               /\ n.is_orphan <=> (n.level > 0 /\ SmallerBefore(tb, p) = {})
               /\ n.is_orphan => n.orphan_reason = NoParentReason
               /\ p \in Range(tb.root_nodes) <=> n.level = 0

(***************************************************************************)
(* C4: in the forest built from levels no page is among its own            *)
(* descendants, and following parent links from any page ends at a page    *)
(* without a parent without visiting a page twice.                         *)
(***************************************************************************)
C4_NoCycle ==
    tpc \in Relations =>
        \A p \in DOMAIN tb.nodes :
            /\ p \notin Descendants(tb, p)
            /\ ParentWalkEnds(tb, p, {})

\* a chain of three generations has been built
C4_Witness ==
    /\ tpc = "done"
    /\ \E p, q, r \in DOMAIN tb.nodes :
          /\ AttachedTo(tb, p) = {q}
          /\ AttachedTo(tb, q) = {r}
          /\ tb.nodes[r].level = 0
          /\ p \in Descendants(tb, r)

(***************************************************************************)
(* Vocabulary for statements about a built index                           *)
(***************************************************************************)
\* the sections of the index, as pairs <<notebook index, section index>>
BuiltSections ==
    UNION {{<<k, j>> : j \in 1..Len(notebooks[k].sections)} : k \in 1..Len(notebooks)}

SectionAt(ks) == notebooks[ks[1]].sections[ks[2]]

\* the pages of a section whose children list contains page id
ParentsIn(section, id) ==
    {q \in DOMAIN section.nodes : id \in Range(section.nodes[q].children)}

\* the folder the layout rule gives a page's parent container: the section
\* folder, or <container of the parent>/<sanitized title of the parent>
RECURSIVE ContainerOf(_, _, _)
ContainerOf(section, id, fuel) ==
    IF ParentsIn(section, id) = {} \/ fuel = 0 THEN section.resolved_path
    ELSE LET parent == CHOOSE q \in ParentsIn(section, id) : TRUE
         IN Append(ContainerOf(section, parent, fuel - 1),
                   slugify(section.nodes[parent].title))

\* the sections of a notebook of the inventory with the names of the groups
\* above each, in the order the notebook is processed
RECURSIVE InventorySections(_, _, _)
InventorySections(sections, groups, above) ==
    IF sections # <<>>
    THEN <<[section |-> Head(sections), groups |-> above]>>
             \o InventorySections(Tail(sections), groups, above)
    ELSE IF groups # <<>>
    THEN InventorySections(Head(groups).sections, Head(groups).section_groups,
                           Append(above, Head(groups).name))
             \o InventorySections(<<>>, Tail(groups), above)
    ELSE <<>>

\* the pages the validator's walk can meet in a section
ReachablePages(section) ==
    LET tops == Range(section.root_pages) \cup Range(section.orphan_pages)
    IN tops \cup ReachWithin(section, tops, Cardinality(DOMAIN section.nodes))

\* the number of records about one notebook, section or page
Records(notebook_id, section_id, page_id) ==
    Cardinality({i \in 1..Len(missing_links) :
                    /\ missing_links[i].notebook_id = notebook_id
                    /\ missing_links[i].section_id = section_id
                    /\ missing_links[i].page_id = page_id})

OnDisk(path) == path \in dirs \cup files

\* the directory operations have been executed and nothing else has touched the disk
OnlyDirectories == pc = "ready" /\ files = {} /\ exported = <<>>

(***************************************************************************)
(* C5: after build() every page of every section (top-level page,          *)
(* descendant, orphan, page attached under an orphan) has a resolved path  *)
(* and a relative path, and the id -> path map has an entry for its id.    *)
(***************************************************************************)
C5_EveryPageHasPath ==
    pc = "built" =>
        \A ks \in BuiltSections : \A id \in DOMAIN SectionAt(ks).nodes :
            /\ SectionAt(ks).nodes[id].resolved_path # NonePath
            /\ SectionAt(ks).nodes[id].relative_path_from_root # NoneStr
            /\ DictHas(planner.id_to_path, id)

(***************************************************************************)
(* C6: after planning, a page with children has the path                   *)
(* <container>/<name>/<name>.html and a mkdir operation for                *)
(* <container>/<name>; a page without children has <container>/<name>.html;*)
(* the container is the section folder for a page directly in the section  *)
(* and the folder of the parent page otherwise.                            *)
(***************************************************************************)
C6_FolderOrFile ==
    pc = "built" =>
        \A ks \in BuiltSections : \A id \in DOMAIN SectionAt(ks).nodes :
            LET section == SectionAt(ks)
                page == section.nodes[id]
                name == slugify(page.title)
                container == ContainerOf(section, id, Cardinality(DOMAIN section.nodes))
            IN IF page.children # <<>>
               THEN /\ page.resolved_path = container \o <<name, name \o HtmlExt>>
                    /\ Mkdir(Append(container, name)) \in Range(planner.operations)
               ELSE page.resolved_path = Append(container, name \o HtmlExt)

(***************************************************************************)
(* C7: the file the content exporter writes for a page is the resolved     *)
(* path the planner gave that page: for pages directly in a section, for   *)
(* child pages and for orphans.                                            *)
(***************************************************************************)
C7_ExporterWritesPlannedPath ==
    \A k \in 1..Len(exported) : \A i \in 1..Len(exported[k]) :
        exported[k][i].written =>
            exported[k][i].html_path =
                notebooks[k].sections[exported[k][i].section]
                    .nodes[exported[k][i].page_id].resolved_path

(***************************************************************************)
(* C8: a section below the section groups g1..gk of a notebook has the     *)
(* resolved path <root>/<notebook>/<g1>/.../<gk>/<section>, every name     *)
(* sanitized and one component per group; the notebook has                 *)
(* <root>/<notebook>; there is a mkdir operation for each.                 *)
(***************************************************************************)
C8_SectionPathPerGroup ==
    (pc = "built" /\ built = 1) =>
        \A k \in 1..Len(notebooks) :
            LET nb_data == preflight_data.notebooks[k]
                nb_path == Append(export_root, slugify(nb_data.name))
                inv == InventorySections(nb_data.sections, nb_data.section_groups, <<>>)
            IN /\ notebooks[k].resolved_path = nb_path
               /\ Mkdir(nb_path) \in Range(planner.operations)
               /\ Len(notebooks[k].sections) = Len(inv)
               /\ \A j \in 1..Len(inv) :
                     LET sec_path == nb_path
                             \o [g \in 1..Len(inv[j].groups) |-> slugify(inv[j].groups[g])]
                             \o <<slugify(inv[j].section.name)>>
                     IN /\ notebooks[k].sections[j].resolved_path = sec_path
                        /\ Mkdir(sec_path) \in Range(planner.operations)

(***************************************************************************)
(* C9: the validator returns one record for every notebook, section and    *)
(* reachable page whose planned path is not on disk and none for a path    *)
(* that is; after the directory operations alone it reports every page and *)
(* no notebook or section; once every page file exists it returns nothing. *)
(***************************************************************************)
C9_MissingLinksExact ==
    (pc = "validated" /\ built = 1) =>
        /\ \A k \in 1..Len(notebooks) :
              /\ Records(notebooks[k].id, None, None)
                     = IF OnDisk(notebooks[k].resolved_path) THEN 0 ELSE 1
              /\ \A j \in 1..Len(notebooks[k].sections) :
                    LET section == notebooks[k].sections[j]
                    IN /\ Records(notebooks[k].id, section.id, None)
                              = IF OnDisk(section.resolved_path) THEN 0 ELSE 1
                       /\ \A id \in ReachablePages(section) :
                             section.nodes[id].resolved_path # NonePath =>
                                 Records(notebooks[k].id, section.id, id)
                                     = IF OnDisk(section.nodes[id].resolved_path)
                                       THEN 0 ELSE 1
        /\ (files = {} /\ dirs = RunOps({export_root}, planner.operations)) =>
              /\ \A i \in 1..Len(missing_links) : missing_links[i].page_id # None
              /\ \A k \in 1..Len(notebooks) : \A j \in 1..Len(notebooks[k].sections) :
                    \A id \in DOMAIN notebooks[k].sections[j].nodes :
                        Records(notebooks[k].id, notebooks[k].sections[j].id, id) = 1
        /\ (/\ RunOps({export_root}, planner.operations) \subseteq dirs
            /\ \A ks \in BuiltSections : \A id \in DOMAIN SectionAt(ks).nodes :
                   SectionAt(ks).nodes[id].resolved_path \in files) =>
              missing_links = <<>>

(***************************************************************************)
(* C10: executing the operations in order on an empty export root creates  *)
(* every notebook and section path as a directory and the parent directory *)
(* of every page path, no directory other than these and their ancestors,  *)
(* and executing the list again changes nothing.                           *)
(***************************************************************************)
C10_OperationsMakeTheTree ==
    OnlyDirectories =>
        LET planned ==
                {notebooks[k].resolved_path : k \in 1..Len(notebooks)}
                \cup {SectionAt(ks).resolved_path : ks \in BuiltSections}
                \cup UNION {{Front(SectionAt(ks).nodes[id].resolved_path) :
                                id \in {x \in DOMAIN SectionAt(ks).nodes :
                                          SectionAt(ks).nodes[x].resolved_path # NonePath}} :
                            ks \in BuiltSections}
        IN /\ planned \subseteq dirs
           /\ dirs \subseteq {export_root} \cup UNION {Ancestors(d) : d \in planned}
           /\ RunOps(dirs, planner.operations) = dirs

(***************************************************************************)
(* C11: after build() the returned error list holds every error record     *)
(* supplied in the `errors` list of any section of the inventory, and the  *)
(* top-level scan errors; none is dropped.                                 *)
(***************************************************************************)
C11_NoErrorDropped ==
    (pc = "built" /\ built = 1) =>
        /\ \A i \in 1..Len(preflight_data.errors) :
               preflight_data.errors[i] \in Range(errors)
        /\ \A k \in 1..Len(preflight_data.notebooks) :
               LET nb_data == preflight_data.notebooks[k]
                   inv == InventorySections(nb_data.sections, nb_data.section_groups, <<>>)
               IN \A j \in 1..Len(inv) : \A e \in 1..Len(inv[j].section.errors) :
                      inv[j].section.errors[e] \in Range(errors)

(***************************************************************************)
(* Inventories that differ from a given one only in the array order of     *)
(* their section lists and of their page lists                             *)
(***************************************************************************)
Arrangements == {"same", "reverse", "rotate"}

Rearranged(seq, how) ==
    IF how = "same" \/ Len(seq) < 2 THEN seq
    ELSE IF how = "reverse" THEN [i \in 1..Len(seq) |-> seq[Len(seq) + 1 - i]]
    ELSE Tail(seq) \o <<Head(seq)>>

RearrangedSections(sections, hs, hp) ==
    Rearranged([i \in 1..Len(sections) |->
                   [sections[i] EXCEPT !.pages = Rearranged(@, hp)]], hs)

RECURSIVE RearrangedGroups(_, _, _)
RearrangedGroups(groups, hs, hp) ==
    [i \in 1..Len(groups) |->
        [groups[i] EXCEPT !.sections = RearrangedSections(@, hs, hp),
                          !.section_groups = RearrangedGroups(@, hs, hp)]]

RearrangedInventory(data, hs, hp) ==
    [data EXCEPT !.notebooks =
        [i \in 1..Len(data.notebooks) |->
            [data.notebooks[i] EXCEPT
                !.sections = RearrangedSections(@, hs, hp),
                !.section_groups = RearrangedGroups(@, hs, hp)]]]

(***************************************************************************)
(* C12: build() of a new IndexBuilder on an inventory that differs from    *)
(* the one built only in the array order of section lists or page lists    *)
(* produces the same index.md and the same index.json.                     *)
(***************************************************************************)
C12_ArrayOrderIrrelevant ==
    (pc = "built" /\ built = 1) =>
        \A hs \in Arrangements, hp \in Arrangements :
            \E r \in {build_index(RearrangedInventory(preflight_data, hs, hp))} :
                /\ r.index_md_content = index_md
                /\ r.index_json_data = index_json

(***************************************************************************)
(* C13: build() invocations are independent: a second build() on the same  *)
(* IndexBuilder with unchanged input returns a result equal to the first   *)
(* (notebook list, totals, errors, operations, id-to-path map, documents), *)
(* and no call modifies the supplied inventory.                            *)
(***************************************************************************)
C13_BuildIsRepeatable ==
    [][/\ built' = built + 1 => preflight_data' = preflight_data
       /\ (built = 1 /\ built' = 2) =>
              /\ notebooks' = notebooks
              /\ stats' = stats
              /\ errors' = errors
              /\ planner' = planner
              /\ index_md' = index_md
              /\ index_json' = index_json]_vars

(***************************************************************************)
(* The page ids an index.json page list names, nested children included,   *)
(* and the outline line index.md has for a page of a built section         *)
(***************************************************************************)
RECURSIVE ListedIds(_)
ListedIds(pages) ==
    IF pages = <<>> THEN <<>>
    ELSE <<Head(pages).pageId>> \o ListedIds(Head(pages).children)
         \o ListedIds(Tail(pages))

OutlineLine(section, id) ==
    IF section.nodes[id].is_orphan
    THEN append_page_link(section.nodes[id], 2, TRUE)
    ELSE append_page_link(section.nodes[id], section.nodes[id].depth + 1, FALSE)

\* the pages of all built sections whose outline line is the given one
PagesRenderedAs(line) ==
    {x \in UNION {{<<ks, id>> : id \in DOMAIN SectionAt(ks).nodes} : ks \in BuiltSections} :
        OutlineLine(SectionAt(x[1]), x[2]) = line}

JsonSection(ks) == index_json.notebooks[ks[1]].sections[ks[2]]

(***************************************************************************)
(* C14: every page of the inventory has exactly one line in the index.md   *)
(* outline and is named exactly once in the index.json page trees of its   *)
(* section (pages and orphans with nested children), which name no other   *)
(* page; an orphan stands only in the orphan list of its section.          *)
(***************************************************************************)
C14_EachPageListedOnce ==
    (pc = "built" /\ built = 1) =>
        \A ks \in BuiltSections :
            LET listed == ListedIds(JsonSection(ks).pages)
                              \o ListedIds(JsonSection(ks).orphans)
            IN /\ Range(listed) \subseteq DOMAIN SectionAt(ks).nodes
               /\ \A id \in DOMAIN SectionAt(ks).nodes :
                     /\ Count(id, listed) = 1
                     /\ Count(OutlineLine(SectionAt(ks), id), index_md)
                            = Cardinality(PagesRenderedAs(OutlineLine(SectionAt(ks), id)))
                     /\ SectionAt(ks).nodes[id].is_orphan =>
                            /\ id \notin Range(ListedIds(JsonSection(ks).pages))
                            /\ \E i \in 1..Len(JsonSection(ks).orphans) :
                                   JsonSection(ks).orphans[i].pageId = id

(***************************************************************************)
(* Counting over an inventory and over the notebooks of a result           *)
(***************************************************************************)
RECURSIVE Sum(_)
Sum(numbers) == IF numbers = <<>> THEN 0 ELSE Head(numbers) + Sum(Tail(numbers))

\* the section groups of a list of groups, at every depth
RECURSIVE CountGroups(_)
CountGroups(groups) ==
    IF groups = <<>> THEN 0
    ELSE 1 + CountGroups(Head(groups).section_groups) + CountGroups(Tail(groups))

\* the sections of all notebooks of the inventory, at every depth
AllInventorySections ==
    Flatten([k \in 1..Len(preflight_data.notebooks) |->
                InventorySections(preflight_data.notebooks[k].sections,
                                  preflight_data.notebooks[k].section_groups, <<>>)])

\* the sections of all notebooks of the result
AllBuiltSections == Flatten([k \in 1..Len(notebooks) |-> notebooks[k].sections])

(***************************************************************************)
(* C15: in the totals of a result, notebooks is the number of notebooks,   *)
(* section_groups the number of section groups at every depth, sections    *)
(* the number of sections at every depth (the summed length of the         *)
(* notebooks' flattened section lists), pages the number of page records   *)
(* of all sections and orphans the summed length of the orphan lists; for  *)
(* the first build these are the counts of the inventory.                  *)
(***************************************************************************)
C15_TotalsCountTheResult ==
    pc = "built" =>
        /\ stats.notebooks = Len(notebooks)
        /\ stats.section_groups =
               Sum([k \in 1..Len(notebooks) |-> CountGroups(notebooks[k].section_groups)])
        /\ stats.sections = Len(AllBuiltSections)
        /\ stats.pages = Sum([j \in 1..Len(AllBuiltSections) |->
                                 Len(AllBuiltSections[j].pages)])
        /\ stats.orphans = Sum([j \in 1..Len(AllBuiltSections) |->
                                   Len(AllBuiltSections[j].orphan_pages)])
        /\ built = 1 =>
              /\ stats.notebooks = Len(preflight_data.notebooks)
              /\ stats.section_groups =
                     Sum([k \in 1..Len(preflight_data.notebooks) |->
                             CountGroups(preflight_data.notebooks[k].section_groups)])
              /\ stats.sections = Len(AllInventorySections)
              /\ stats.pages = Sum([j \in 1..Len(AllInventorySections) |->
                                       Len(AllInventorySections[j].section.pages)])
              /\ index_json.totals = stats

\* a first build of two notebooks, one of them with a section group in a
\* section group
C15_Witness ==
    /\ pc = "built"
    /\ built = 1
    /\ stats.notebooks = 2
    /\ stats.section_groups = 2
    /\ stats.sections = 4
    /\ stats.pages = 5

(***************************************************************************)
(* C16: in the totals of a result, parent_pages is the number of pages     *)
(* with at least one child and child_pages the number of pages that have a *)
(* parent, so that pages = root pages + orphans + child_pages.             *)
(***************************************************************************)
C16_HierarchyTotals ==
    pc = "built" =>
        /\ stats.parent_pages =
               Sum([j \in 1..Len(AllBuiltSections) |->
                       Cardinality({id \in DOMAIN AllBuiltSections[j].nodes :
                                       AllBuiltSections[j].nodes[id].children # <<>>})])
        /\ stats.child_pages =
               Sum([j \in 1..Len(AllBuiltSections) |->
                       Cardinality({id \in DOMAIN AllBuiltSections[j].nodes :
                                       ParentsIn(AllBuiltSections[j], id) # {}})])
        /\ stats.pages =
               Sum([j \in 1..Len(AllBuiltSections) |->
                       Len(AllBuiltSections[j].root_pages)])
               + stats.orphans + stats.child_pages

(***************************************************************************)
(* Page lists with pairwise distinct order values, and the same records    *)
(* supplied in ascending order                                             *)
(***************************************************************************)
DistinctOrders(pages) ==
    \A i, j \in 1..Len(pages) : i # j => pages[i].order # pages[j].order

Ascending(ids, nodes) ==
    \A i, j \in 1..Len(ids) : i < j => nodes[ids[i]].order < nodes[ids[j]].order

SuppliedSorted(pages) ==
    [i \in 1..Len(pages) |->
        CHOOSE p \in Range(pages) :
            Cardinality({q \in Range(pages) : q.order < p.order}) = i - 1]

(***************************************************************************)
(* C17: for a page list with pairwise distinct order values, in any array  *)
(* order, the root list and the orphan list are ascending by order and the *)
(* parent/child edges are those obtained from the same records supplied    *)
(* in ascending order.                                                     *)
(***************************************************************************)
C17_ArrayOrderOfPagesIrrelevant ==
    (tpc = "done" /\ DistinctOrders(tb.raw_pages)) =>
        /\ Ascending(tb.root_nodes, tb.nodes)
        /\ Ascending(tb.orphan_nodes, tb.nodes)
        /\ \E sorted \in {TreeBuild(NewTreeBuilder(SuppliedSorted(tb.raw_pages)))} :
              /\ DOMAIN sorted.nodes = DOMAIN tb.nodes
              /\ \A id \in DOMAIN tb.nodes :
                    /\ tb.nodes[id].children = sorted.nodes[id].children
                    /\ tb.nodes[id].parent_page_id = sorted.nodes[id].parent_page_id
              /\ tb.root_nodes = sorted.root_nodes
              /\ tb.orphan_nodes = sorted.orphan_nodes

\* three pages supplied in descending order, one attached to another, two roots
C17_Witness ==
    /\ tpc = "done"
    /\ Len(tb.raw_pages) = 3
    /\ DistinctOrders(tb.raw_pages)
    /\ \A i \in 1..2 : tb.raw_pages[i].order > tb.raw_pages[i + 1].order
    /\ Len(tb.root_nodes) = 2
    /\ \E id \in DOMAIN tb.nodes : tb.nodes[id].children # <<>>

(***************************************************************************)
(* C18: every page of a section's orphan list is planned as the file       *)
(* <section folder>/<sanitized title>.html with depth 0, and no resolved   *)
(* path and no mkdir operation has a component __orphans__.                *)
(***************************************************************************)
OrphansFolder == <<"_", "_", "o", "r", "p", "h", "a", "n", "s", "_", "_">>

Blank(c) == c \in {" ", "\t", "\n"}

Trimmed(title) ==
    IF \A i \in 1..Len(title) : Blank(title[i]) THEN <<>>
    ELSE LET first == CHOOSE i \in 1..Len(title) :
                          ~Blank(title[i]) /\ \A j \in 1..(i - 1) : Blank(title[j])
             last == CHOOSE i \in 1..Len(title) :
                         ~Blank(title[i]) /\ \A j \in (i + 1)..Len(title) : Blank(title[j])
         IN SubSeq(title, first, last)

DisplayLabel(title) ==
    IF Trimmed(title) = <<>> THEN <<"U", "n", "t", "i", "t", "l", "e", "d">>
    ELSE Trimmed(title)

LinkEncoded(path) ==
    Flatten([i \in 1..Len(path) |->
        CASE path[i] = "%" -> <<"%", "2", "5">>
          [] path[i] = " " -> <<"%", "2", "0">>
          [] path[i] = "#" -> <<"%", "2", "3">>
          [] path[i] = "?" -> <<"%", "3", "F">>
          [] path[i] = "\\" -> <<"/">>
          [] OTHER -> <<path[i]>>])

Hyperlink(title, target) ==
    <<"[">> \o DisplayLabel(title) \o <<"]", "(">> \o target \o <<")">>

\* the path of a planned folder or file below the export root, with forward slashes
BelowRoot(path) == JoinSlash(Tail(path))

Contains(line, part) ==
    \E i \in 0..(Len(line) - Len(part)) : SubSeq(line, i + 1, i + Len(part)) = part

\* the hyperlink of a line that has one: from its first [ to the next )
LinkOf(line) ==
    LET open == CHOOSE i \in 1..Len(line) :
                    line[i] = "[" /\ \A j \in 1..(i - 1) : line[j] # "["
        close == CHOOSE i \in (open + 1)..Len(line) :
                     line[i] = ")" /\ \A j \in (open + 1)..(i - 1) : line[j] # ")"
    IN SubSeq(line, open, close)

NotebookLinks ==
    {Hyperlink(notebooks[k].name,
               LinkEncoded(BelowRoot(notebooks[k].resolved_path)) \o <<"/">>) :
        k \in 1..Len(notebooks)}

SectionLinks ==
    {Hyperlink(SectionAt(ks).name,
               LinkEncoded(BelowRoot(SectionAt(ks).resolved_path)) \o <<"/">>) :
        ks \in BuiltSections}

PageLinks(section, ids) ==
    {Hyperlink(section.nodes[id].title,
               LinkEncoded(BelowRoot(section.nodes[id].resolved_path))) : id \in ids}

\* the pages the outline of a section walks: the root trees and the orphans
OutlinePages(section) ==
    Range(section.orphan_pages) \cup Range(section.root_pages)
        \cup ReachWithin(section, Range(section.root_pages),
                         Cardinality(DOMAIN section.nodes))

(***************************************************************************)
(* C19: in index.md the hyperlink of every notebook, section and page has  *)
(* as label the trimmed original title, or Untitled when the title is      *)
(* empty or only whitespace (never an empty label), and as target the      *)
(* link-encoded path of the planned folder or file relative to the export  *)
(* root; the document has no other hyperlink.                              *)
(***************************************************************************)
C19_LinkLabelAndTarget ==
    pc = "built" =>
        /\ \A i \in 1..Len(index_md) :
               /\ ~Contains(index_md[i], <<"[", "]", "(">>)
               /\ "[" \in Range(index_md[i]) =>
                      LinkOf(index_md[i]) \in
                          NotebookLinks \cup SectionLinks
                              \cup UNION {PageLinks(SectionAt(ks), OutlinePages(SectionAt(ks))) :
                                             ks \in BuiltSections}
        /\ \A link \in NotebookLinks :
               <<"### ", NotebookGlyph>> \o link \in Range(index_md)
        /\ \A link \in SectionLinks :
               \E i \in 1..Len(index_md) :
                   Contains(index_md[i], <<"- ", SectionGlyph>> \o link)
        /\ \A ks \in BuiltSections :
               \A link \in PageLinks(SectionAt(ks), OutlinePages(SectionAt(ks))) :
                   \E i \in 1..Len(index_md) :
                       /\ Contains(index_md[i], <<" ">> \o link)
                       /\ SectionGlyph \notin Range(index_md[i])

\* an outline with a page whose title is only a tab and a page whose
\* title is padded and whose file name has characters that are encoded
C19_Witness ==
    /\ pc = "built"
    /\ \E i \in 1..Len(index_md) :
           Contains(index_md[i], <<"[", "U", "n", "t", "i", "t", "l", "e", "d", "]", "(">>)
    /\ \E i \in 1..Len(index_md) :
           Contains(index_md[i], <<"[", "#", "%", "]", "(">>)
             /\ Contains(index_md[i], <<"%", "2", "3", "%", "2", "5">>)
    /\ \E i \in 1..Len(index_md) : Contains(index_md[i], <<"a", "%", "2", "0", "b">>)

(***************************************************************************)
(* C20: for every string, sanitize_path_name with the default maximal      *)
(* length returns a non-empty string without any of < > : " / \ | ? *      *)
(* that neither starts nor ends with a dot or a whitespace character, and  *)
(* returns "untitled" when the string is empty or has only dots and        *)
(* whitespace.                                                             *)
(***************************************************************************)
C20_SanitizedNameIsSafe ==
    (called = "sanitize_path_name" /\ arg_max_length = DefaultMaxLength) =>
        /\ returned # <<>>
        /\ \A i \in 1..Len(returned) :
               returned[i] \notin {"<", ">", ":", "\"", "/", "\\", "|", "?", "*"}
        /\ ~(Head(returned) = "." \/ Blank(Head(returned)))
        /\ ~(Last(returned) = "." \/ Blank(Last(returned)))
        /\ (\A i \in 1..Len(arg_text) : arg_text[i] = "." \/ Blank(arg_text[i])) =>
               returned = <<"u", "n", "t", "i", "t", "l", "e", "d">>

(***************************************************************************)
(* C21: for every string, sanitize_path_name with its default maximal      *)
(* length returns the same string as the exporter's sanitize_filename.     *)
(***************************************************************************)
C21_SameNameAsExporter ==
    /\ called = "sanitize_filename" =>
           returned = sanitize_path_name(arg_text, DefaultMaxLength)
    /\ (called = "sanitize_path_name" /\ arg_max_length = DefaultMaxLength) =>
           returned = sanitize_filename(arg_text)

(***************************************************************************)
(* Percent-decoding of the four escapes, and a path with its backslashes   *)
(* turned into slashes                                                     *)
(***************************************************************************)
Escapes ==
    { <<"%", "2", "5">>, <<"%", "2", "0">>, <<"%", "2", "3">>, <<"%", "3", "F">> }

Unescaped(escape) ==
    CASE escape = <<"%", "2", "5">> -> "%"
      [] escape = <<"%", "2", "0">> -> " "
      [] escape = <<"%", "2", "3">> -> "#"
      [] escape = <<"%", "3", "F">> -> "?"

RECURSIVE PercentDecoded(_)
PercentDecoded(target) ==
    IF target = <<>> THEN <<>>
    ELSE IF Len(target) >= 3 /\ SubSeq(target, 1, 3) \in Escapes
    THEN <<Unescaped(SubSeq(target, 1, 3))>>
             \o PercentDecoded(SubSeq(target, 4, Len(target)))
    ELSE <<Head(target)>> \o PercentDecoded(Tail(target))

WithSlashes(path) == [i \in 1..Len(path) |-> IF path[i] = "\\" THEN "/" ELSE path[i]]

(***************************************************************************)
(* C22: the output of md_link_target has no literal space, # or ?, every   *)
(* % in it begins one of the escapes %25, %20, %23, %3F, every / of the    *)
(* input is kept, and percent-decoding it gives back the input with its    *)
(* backslashes replaced by slashes.                                        *)
(***************************************************************************)
C22_LinkTargetDecodesToPath ==
    called = "md_link_target" =>
        /\ \A i \in 1..Len(returned) : returned[i] \notin {" ", "#", "?"}
        /\ \A i \in 1..Len(returned) :
               returned[i] = "%" =>
                   /\ i + 2 <= Len(returned)
                   /\ SubSeq(returned, i, i + 2) \in Escapes
        /\ Count("/", returned) = Count("/", arg_text) + Count("\\", arg_text)
        /\ PercentDecoded(returned) = WithSlashes(arg_text)

\* a path that already holds an escape
C22_Witness ==
    /\ called = "md_link_target"
    /\ arg_text = <<"%", "2", "0">>
    /\ returned = <<"%", "2", "5", "2", "0">>

(***************************************************************************)
(* C23: for every text and every max_length, the result of                 *)
(* sanitize_path_name(text, max_length) has at most max_length characters. *)
(***************************************************************************)
C23_AtMostMaxLength ==
    called = "sanitize_path_name" => Len(returned) <= arg_max_length

(***************************************************************************)
(* The page records a section of the inventory supplies, and the pages     *)
(* among them that lack the expected parent: level above 0 and no page     *)
(* of smaller level before them in `order` sequence (ties: array order)    *)
(***************************************************************************)
ComesBefore(pages, i, j) ==
    \/ pages[i].order < pages[j].order
    \/ pages[i].order = pages[j].order /\ i < j

LacksParent(pages, j) ==
    /\ pages[j].level > 0
    /\ \A i \in 1..Len(pages) :
           ComesBefore(pages, i, j) => pages[i].level >= pages[j].level

\* the result holds every notebook, section and page record of the inventory,
\* both documents, the directory operations and the totals
CompleteResult ==
    /\ Len(notebooks) = Len(preflight_data.notebooks)
    /\ Len(AllBuiltSections) = Len(AllInventorySections)
    /\ \A k \in 1..Len(AllBuiltSections) :
           LET supplied == AllInventorySections[k].section
               section == AllBuiltSections[k]
           IN /\ section.id = supplied.id
              /\ section.resolved_path # NonePath
              /\ DOMAIN section.nodes = {supplied.pages[i].id : i \in 1..Len(supplied.pages)}
              /\ Range(section.pages) = DOMAIN section.nodes
              /\ Range(section.root_pages) \cup Range(section.orphan_pages)
                     \subseteq DOMAIN section.nodes
    /\ index_md # <<>>
    /\ Len(index_json.notebooks) = Len(notebooks)
    /\ stats.sections = Len(AllBuiltSections)
    /\ Len(planner.operations) >= Len(notebooks) + Len(AllBuiltSections)

\* every page that lacks its parent is an orphan of its section with a reason
AnomaliesAreOrphans ==
    \A k \in 1..Len(AllBuiltSections) :
        LET supplied == AllInventorySections[k].section.pages
            section == AllBuiltSections[k]
        IN \A j \in 1..Len(supplied) :
               (LacksParent(supplied, j) /\ supplied[j].id # "") =>
                   /\ section.nodes[supplied[j].id].is_orphan
                   /\ section.nodes[supplied[j].id].orphan_reason = NoParentReason
                   /\ supplied[j].id \in Range(section.orphan_pages)

(***************************************************************************)
(* On the inventories of specification FairSpec build() returns a complete *)
(* result (also when all pages of a section are orphans, when levels skip  *)
(* values, when titles are duplicated or empty), and a page that lacks its *)
(* parent is recorded as an orphan with a reason.                          *)
(***************************************************************************)
SmallInventoriesAreBuilt ==
    /\ <>(pc = "built")
    /\ []((pc = "built" /\ built = 1) => (CompleteResult /\ AnomaliesAreOrphans))

\* a built section of three pages that are all orphans, one of them without a
\* title, the first at a level that skips one
SmallInventoryOfOrphans ==
    /\ pc = "built"
    /\ built = 1
    /\ \E ks \in BuiltSections :
           /\ Len(SectionAt(ks).orphan_pages) = 3
           /\ SectionAt(ks).root_pages = <<>>
           /\ \E p \in DOMAIN SectionAt(ks).nodes : SectionAt(ks).nodes[p].title = <<>>
           /\ \E p \in DOMAIN SectionAt(ks).nodes :
                  SectionAt(ks).nodes[p].level = 2 /\ SectionAt(ks).nodes[p].order = 0

(***************************************************************************)
(* C24: for every finite inventory build() terminates and returns a        *)
(* complete result, nothing aborts the build: in particular the            *)
(* cycle-detection pass over a section, however deeply its pages are       *)
(* nested, ends without raising.                                           *)
(***************************************************************************)
C24_BuildNeverAborts == spc # "raised"

(***************************************************************************)
(* The pages before p in `order` sequence whose level is exactly one below *)
(* that of p, and the most recent page of a set of pages                   *)
(***************************************************************************)
OneLevelUpBefore(t, p) ==
    {q \in DOMAIN t.nodes : Precedes(t, q, p) /\ t.nodes[q].level = t.nodes[p].level - 1}

MostRecent(t, pages) == CHOOSE q \in pages : \A r \in pages \ {q} : Precedes(t, r, q)

C26_CyclePassChangesNothing ==
    /\ [](\A p \in DOMAIN tb.nodes : tb.nodes[p].orphan_reason # CycleReason)
    /\ [][(tpc = "related" /\ tpc' = "checked") =>
              /\ tb' = tb
              /\ {p \in DOMAIN tb'.nodes : tb'.nodes[p].is_orphan}
                     = {p \in DOMAIN tb.nodes : tb.nodes[p].is_orphan}]_vars

\* the pass has run over a forest with an orphan and with a child that stands
\* before its parent in the page list
C26_Witness ==
    /\ tpc = "checked"
    /\ \E p \in DOMAIN tb.nodes : tb.nodes[p].is_orphan
    /\ \E q \in DOMAIN tb.nodes :
           /\ tb.nodes[q].children # <<>>
           /\ InputIndex(tb, tb.nodes[q].children[1]) < InputIndex(tb, q)

(***************************************************************************)
(* The number of ancestors of a page in the resolved tree of its section   *)
(***************************************************************************)
RECURSIVE AncestorCount(_, _, _)
AncestorCount(section, id, fuel) ==
    IF ParentsIn(section, id) = {} \/ fuel = 0 THEN 0
    ELSE 1 + AncestorCount(section, CHOOSE q \in ParentsIn(section, id) : TRUE, fuel - 1)

(***************************************************************************)
(* C27: after planning, the depth of every page is the number of its       *)
(* ancestors in the resolved tree: 0 for a page placed directly in the     *)
(* section, the depth of the parent + 1 for a page that has a parent.      *)
(***************************************************************************)
C27_DepthCountsAncestors ==
    (pc = "built" /\ built = 1) =>
        \A ks \in BuiltSections :
            \A p \in DOMAIN SectionAt(ks).nodes :
                LET section == SectionAt(ks)
                IN /\ section.nodes[p].depth
                          = AncestorCount(section, p, Cardinality(DOMAIN section.nodes))
                   /\ \A q \in ParentsIn(section, p) :
                          section.nodes[p].depth = section.nodes[q].depth + 1
                   /\ ParentsIn(section, p) = {} => section.nodes[p].depth = 0

(***************************************************************************)
(* The page ids of every section of the inventory are pairwise distinct    *)
(***************************************************************************)
IdsUniquePerSection ==
    \A k \in 1..Len(AllInventorySections) :
        LET pages == AllInventorySections[k].section.pages
        IN \A i, j \in 1..Len(pages) : pages[i].id = pages[j].id => i = j

(***************************************************************************)
(* C28: after build() over an inventory whose page ids are unique within   *)
(* each section, the id->path map holds for every page p, under p.id, p's  *)
(* own relativePathFromRoot (its resolvedPath relative to the export root, *)
(* with forward slashes), and the map has totals.pages entries.            *)
(***************************************************************************)
C28_MapHoldsEveryPagesPath ==
    (pc = "built" /\ built = 1 /\ IdsUniquePerSection) =>
        /\ \A ks \in BuiltSections :
               \A p \in DOMAIN SectionAt(ks).nodes :
                   /\ DictHas(planner.id_to_path, p)
                   /\ DictGet(planner.id_to_path, p)
                          = SectionAt(ks).nodes[p].relative_path_from_root
                   /\ SectionAt(ks).nodes[p].resolved_path # NonePath
                   /\ SectionAt(ks).nodes[p].relative_path_from_root
                          = PathStr(SubSeq(SectionAt(ks).nodes[p].resolved_path, 2,
                                           Len(SectionAt(ks).nodes[p].resolved_path)))
        /\ Len(planner.id_to_path) = stats.pages

(***************************************************************************)
(* The `order` values of a sequence of pages do not decrease               *)
(***************************************************************************)
OrderNeverDecreases(t, ids) ==
    \A i, j \in 1..Len(ids) : i < j => t.nodes[ids[i]].order <= t.nodes[ids[j]].order

(***************************************************************************)
(* C29: in a resolved forest the children list of every page is in         *)
(* non-decreasing `order`, every child has a strictly larger level and a   *)
(* not-smaller `order` than its parent, and the pre-order walk of the root *)
(* forest visits the pages in non-decreasing `order`.                      *)
(***************************************************************************)
C29_ForestFollowsOrder ==
    (tpc = "done" /\ tb.raw_pages # <<>>) =>
        /\ \A p \in DOMAIN tb.nodes :
               /\ OrderNeverDecreases(tb, tb.nodes[p].children)
               /\ \A c \in Range(tb.nodes[p].children) :
                      /\ tb.nodes[c].level > tb.nodes[p].level
                      /\ tb.nodes[c].order >= tb.nodes[p].order
        /\ OrderNeverDecreases(tb, WalkAll(tb, tb.root_nodes))

(***************************************************************************)
(* The pages of a list have pairwise distinct sanitized titles             *)
(***************************************************************************)
DistinctNames(section, ids) ==
    \A i, j \in 1..Len(ids) :
        i # j => slugify(section.nodes[ids[i]].title) # slugify(section.nodes[ids[j]].title)

\* the pages placed directly in the section folder, and the children of each
\* page, have pairwise distinct sanitized titles
SiblingNamesDistinct(section) ==
    /\ DistinctNames(section, section.root_pages \o section.orphan_pages)
    /\ \A p \in DOMAIN section.nodes : DistinctNames(section, section.nodes[p].children)

(***************************************************************************)
(* C30: if the pages placed directly in the section folder (top-level      *)
(* pages and orphans) have pairwise distinct sanitized titles and so have  *)
(* the children of each page, no two pages of the section are assigned the *)
(* same resolvedPath.                                                      *)
(***************************************************************************)
C30_DistinctNamesGiveDistinctPaths ==
    (pc = "built" /\ built = 1) =>
        \A ks \in BuiltSections :
            SiblingNamesDistinct(SectionAt(ks)) =>
                \A p, q \in DOMAIN SectionAt(ks).nodes :
                    (p # q /\ SectionAt(ks).nodes[p].resolved_path # NonePath) =>
                        SectionAt(ks).nodes[p].resolved_path
                            # SectionAt(ks).nodes[q].resolved_path

====
